---- MODULE Spec2Model ----
(***************************************************************************)
(* State-machine model of the CarScene backend: the storage layer          *)
(* (DatabaseStorage, server/utils/adminCheck.ts) and the REST handlers     *)
(* that call it (registerRoutes).  Tables are sets of rows; every insert   *)
(* takes a fresh id from nextId and the store's time as createdAt.         *)
(* A handler is one action.  likePost/likeVideo also exist as two steps,    *)
(* one per store round-trip (select, then insert), so that requests can    *)
(* interleave between them (SpecRace).                                     *)
(***************************************************************************)
EXTENDS Integers, Sequences, FiniteSets, Bags, TLC

\* ------------------------------------------------------------------ bounds
\* rows ever inserted, all tables together
MaxRows == 4
\* like requests that may be between their select and their insert
MaxInFlight == 2
\* rows ever inserted where content of all four kinds is created and deleted
MaxContent == 3
\* posts and videos where the reads that list them go lookup by lookup
MaxListed == 2

\* a nullable column that is not set, an optional body field that is absent
NULL == 0
\* limit the feed routes pass to getFeedPosts / getFeedVideos
FeedLimit == 20
\* max(50) of firstName / lastName and max(500) of bio in updateProfileSchema
NameMax == 50
BioMax == 500

\* ----------------------------------------------------------------- strings
\* a string is a sequence of one-character strings; <<>> is '' (and undefined)
ToLowerChar(c) ==
  CASE c = "A" -> "a"
    [] c = "B" -> "b"
    [] c = "C" -> "c"
    [] OTHER -> c

toLowerCase(s) == [i \in DOMAIN s |-> ToLowerChar(s[i])]

RECURSIVE trimStart(_)
trimStart(s) == IF s # <<>> /\ Head(s) = " " THEN trimStart(Tail(s)) ELSE s

RECURSIVE trimEnd(_)
trimEnd(s) ==
  IF s # <<>> /\ s[Len(s)] = " " THEN trimEnd(SubSeq(s, 1, Len(s) - 1)) ELSE s

trim(s) == trimEnd(trimStart(s))

\* String.prototype.split: '' splits into the one-element list ['']
RECURSIVE split(_, _)
split(s, sep) ==
  IF \A i \in DOMAIN s : s[i] # sep
  THEN <<s>>
  ELSE LET i == CHOOSE k \in DOMAIN s : s[k] = sep /\ \A j \in 1..(k - 1) : s[j] # sep
       IN  <<SubSeq(s, 1, i - 1)>> \o split(SubSeq(s, i + 1, Len(s)), sep)

Range(f) == {f[i] : i \in DOMAIN f}

\* ------------------------------------------------------------- environment
\* the session identities (claims.sub, claims.email) the identity provider issues
Identities ==
  { [sub |-> "u1", email |-> <<"a">>],
    [sub |-> "u2", email |-> <<"B">>] }

Subs == {c.sub : c \in Identities}

EmailOf(sub) == (CHOOSE c \in Identities : c.sub = sub).email

\* the longest allow-list and the longest email that isAdmin is applied to
MaxListLen == 3
MaxEmailLen == 2

\* the strings of at most n characters over an alphabet
Strings(alphabet, n) == UNION {[1..k -> alphabet] : k \in 0..n}

\* process.env.ADMIN_EMAILS unset, or set to a string of letters, blanks and commas
AllowLists == {<<>>} \cup {<<s>> : s \in Strings({"b", "B", " ", ","}, MaxListLen)}

\* the emails isAdmin is asked about; <<>> is undefined and ''
Emails == Strings({"b", "B", "c", " "}, MaxEmailLen)

\* values of process.env.ADMIN_EMAILS: <<>> is unset, <<s>> is the string s
AdminEnvs == { <<>>, << <<" ", "b", ",", "c">> >> }

VARIABLES
  adminEnv,   \* process.env.ADMIN_EMAILS
  sessions,   \* identities holding an authenticated session
  users, posts, videos, locations, likes, comments, follows, saves,  \* tables
  nextId,     \* next fresh id of each table
  inflight,   \* bag of the requests that are between two of their store round-trips
  resp        \* the request that completed last: its response and store result

tables == <<users, posts, videos, locations, likes, comments, follows, saves>>
vars == <<adminEnv, sessions, users, posts, videos, locations, likes, comments,
          follows, saves, nextId, inflight, resp>>

\* ------------------------------------------------------------------ isAdmin
\* isAdmin with an allow-list that never matches
isAdminNobody(email) == FALSE

\* isAdmin without the look-up in the allow-list
isAdminAnyEmail(email) == email # <<>>

\* isAdmin comparing with the entries as they stand between the commas
isAdminUntrimmed(email) ==
  IF email = <<>> THEN FALSE
  ELSE LET adminEmails == IF adminEnv = <<>> THEN <<>> ELSE adminEnv[1]
           adminList == [i \in DOMAIN split(adminEmails, ",") |->
                           toLowerCase(split(adminEmails, ",")[i])]
       IN  toLowerCase(email) \in Range(adminList)

isAdmin(email) ==
  IF email = <<>> THEN FALSE
  ELSE LET adminEmails == IF adminEnv = <<>> THEN <<>> ELSE adminEnv[1]
           adminList == [i \in DOMAIN split(adminEmails, ",") |->
                           toLowerCase(trim(split(adminEmails, ",")[i]))]
       IN  toLowerCase(email) \in Range(adminList)

\* ---------------------------------------------------------------- responses
\* store is what the store returned to the handler: the rows a delete removed, the
\* row an insert returned, the result of a read (for a like, of its select);
\* error is <<>>, or <<m>> when the store call threw an error of message m
Response(route, caller, target, status, body, store) ==
  [route |-> route, caller |-> caller, target |-> target, status |-> status,
   body |-> body, store |-> store, error |-> <<>>]

\* the response of a catch block to an error the store threw
Thrown(route, caller, status, body, message) ==
  [Response(route, caller, NULL, status, body, <<>>) EXCEPT !.error = <<message>>]

Message(m) == [message |-> m]

Success == [success |-> TRUE]

NoResponse == Response("none", "", NULL, 0, <<>>, <<>>)

\* ---------------------------------------------------------------------- ids
\* every table but users draws its primary keys from its own sequence 1, 2, ...
IdTables == {"posts", "videos", "locations", "likes", "comments", "follows", "saves"}

Inserted ==
  nextId.posts + nextId.videos + nextId.locations + nextId.likes + nextId.comments
    + nextId.follows + nextId.saves - 7

CanInsert == Inserted < MaxRows

\* defaultNow(): createdAt is only ever compared between rows of one table, so the
\* time of an insert is kept as the rank of the row among the inserts into its table
Now(table) == nextId[table]

\* ids a request can name: those of the rows ever inserted, deleted ones included
PostTargets == 1..(nextId.posts - 1)
VideoTargets == 1..(nextId.videos - 1)
LocationTargets == 1..(nextId.locations - 1)
CommentTargets == 1..(nextId.comments - 1)

Init ==
  /\ adminEnv \in AdminEnvs
  /\ sessions = {}
  /\ users = {} /\ posts = {} /\ videos = {} /\ locations = {}
  /\ likes = {} /\ comments = {} /\ follows = {} /\ saves = {}
  /\ nextId = [t \in IdTables |-> 1]
  /\ inflight = EmptyBag
  /\ resp = NoResponse

\* the deployment without an admin allow-list
InitNoAdmins == Init /\ adminEnv = <<>>

\* a deployment with an admin allow-list
InitAdmins == Init /\ adminEnv # <<>>

\* -------------------------------------------------------------------- users
\* a nullable text column, an optional field: <<>> is null / undefined, <<s>> is s
\* a field of the identity claims, undefined when the provider does not issue it
Claim(userData, field) == IF field \in DOMAIN userData THEN userData[field] ELSE <<>>

\* "set" leaves a column as it is when the value given for it is undefined
SetColumn(old, value) == IF value = <<>> THEN old ELSE value

\* upsertUser without the look-up by email: insert, or update by id on conflict
upsertUserByIdOnly(userData) ==
  IF \E r \in users : r.id = userData.sub
  THEN {IF r.id = userData.sub
        THEN [r EXCEPT !.email = SetColumn(@, userData.email),
                       !.firstName = SetColumn(@, Claim(userData, "firstName")),
                       !.lastName = SetColumn(@, Claim(userData, "lastName")),
                       !.profileImageUrl =
                         SetColumn(@, Claim(userData, "profileImageUrl"))]
        ELSE r : r \in users}
  ELSE users \cup {[id |-> userData.sub, email |-> userData.email,
                     firstName |-> Claim(userData, "firstName"),
                     lastName |-> Claim(userData, "lastName"),
                     profileImageUrl |-> Claim(userData, "profileImageUrl"),
                     bio |-> <<>>]}

upsertUser(userData) ==
  IF userData.email # <<>> /\ \E r \in users : r.email = userData.email
  THEN {IF r.email = userData.email
        THEN [r EXCEPT !.firstName = SetColumn(@, Claim(userData, "firstName")),
                       !.lastName = SetColumn(@, Claim(userData, "lastName")),
                       !.profileImageUrl = SetColumn(@, Claim(userData, "profileImageUrl"))]
        ELSE r : r \in users}
  ELSE IF \E r \in users : r.id = userData.sub
       THEN {IF r.id = userData.sub
             THEN [r EXCEPT !.email = SetColumn(@, userData.email),
                            !.firstName = SetColumn(@, Claim(userData, "firstName")),
                            !.lastName = SetColumn(@, Claim(userData, "lastName")),
                            !.profileImageUrl =
                              SetColumn(@, Claim(userData, "profileImageUrl"))]
             ELSE r : r \in users}
       ELSE users \cup {[id |-> userData.sub, email |-> userData.email,
                          firstName |-> Claim(userData, "firstName"),
                          lastName |-> Claim(userData, "lastName"),
                          profileImageUrl |-> Claim(userData, "profileImageUrl"),
                          bio |-> <<>>]}

\* a login through the identity provider: upsert the user, open the session
Login(c) ==
  /\ c \notin sessions
  /\ sessions' = sessions \cup {c}
  /\ users' = upsertUser(c)
  /\ UNCHANGED <<adminEnv, posts, videos, locations, likes, comments, follows,
                 saves, nextId, inflight, resp>>

LoginAny == \E c \in Identities : Login(c)

\* the left join of a row with its owning user: <<>> when the user is missing
UserOf(userId) ==
  IF \E u \in users : u.id = userId
  THEN <<CHOOSE u \in users : u.id = userId>>
  ELSE <<>>

\* -------------------------------------------------------------------- posts
createPost(postData) ==
  [id |-> nextId.posts, userId |-> postData.userId, createdAt |-> Now("posts")]

CreatePostRoute(c) ==
  /\ c \in sessions
  /\ CanInsert
  /\ LET post == createPost([userId |-> c.sub])
     IN  /\ posts' = posts \cup {post}
         /\ resp' = Response("POST /api/posts", c.sub, NULL, 200, post, post)
  /\ nextId' = [nextId EXCEPT !.posts = @ + 1]
  /\ UNCHANGED <<adminEnv, sessions, users, videos, locations, likes, comments,
                 follows, saves, inflight>>

\* deletePost without the userId condition
deletePostAnyOwner(postId, userId) == {r \in posts : r.id = postId}

deletePost(postId, userId) == {r \in posts : r.id = postId /\ r.userId = userId}

\* deletePostAdmin whose where clause matches no row
deletePostAdminNothing(postId) == {}

deletePostAdmin(postId) == {r \in posts : r.id = postId}

\* the delete route of a store that cascades to the likes, comments and saves of the post
DeletePostRouteCascade(c, postId) ==
  /\ c \in sessions
  /\ LET admin == isAdmin(c.email)
         result == IF admin THEN deletePostAdmin(postId) ELSE deletePost(postId, c.sub)
         deleted == Cardinality(result) > 0
     IN  /\ posts' = posts \ result
         /\ likes' = {r \in likes : \A x \in result : r.postId # x.id}
         /\ comments' = {r \in comments : \A x \in result : r.postId # x.id}
         /\ saves' = {r \in saves : \A x \in result : r.postId # x.id}
         /\ resp' = IF ~deleted
                    THEN Response("DELETE /api/posts/:postId", c.sub, postId, 404,
                                  Message("Post not found or unauthorized"), result)
                    ELSE Response("DELETE /api/posts/:postId", c.sub, postId, 200,
                                  Success, result)
  /\ UNCHANGED <<adminEnv, sessions, users, videos, locations, follows, nextId, inflight>>

DeletePostRoute(c, postId) ==
  /\ c \in sessions
  /\ LET admin == isAdmin(c.email)
         result == IF admin THEN deletePostAdmin(postId) ELSE deletePost(postId, c.sub)
         deleted == Cardinality(result) > 0
     IN  /\ posts' = posts \ result
         /\ resp' = IF ~deleted
                    THEN Response("DELETE /api/posts/:postId", c.sub, postId, 404,
                                  Message("Post not found or unauthorized"), result)
                    ELSE Response("DELETE /api/posts/:postId", c.sub, postId, 200,
                                  Success, result)
  /\ UNCHANGED <<adminEnv, sessions, users, videos, locations, likes, comments,
                 follows, saves, nextId, inflight>>

\* count() of the like / comment rows of a post
PostLikesCount(postId) == Cardinality({r \in likes : r.postId = postId})
PostCommentsCount(postId) == Cardinality({r \in comments : r.postId = postId})

\* getPostWithDetails with likesCount taken from the comments count
getPostWithDetailsCommentsAsLikes(postId, currentUserId) ==
  LET result == {r \in posts : r.id = postId}
  IN  IF result = {} \/ UserOf((CHOOSE r \in result : TRUE).userId) = <<>>
      THEN <<>>
      ELSE LET post == CHOOSE r \in result : TRUE
           IN  << [id |-> post.id, userId |-> post.userId, createdAt |-> post.createdAt,
                   user |-> UserOf(post.userId)[1],
                   location |-> NULL,
                   likesCount |-> PostCommentsCount(postId),
                   commentsCount |-> PostCommentsCount(postId),
                   isLiked |-> IF currentUserId # ""
                               THEN \E r \in likes :
                                      r.postId = postId /\ r.userId = currentUserId
                               ELSE FALSE ] >>

\* <<>> is undefined; the view has no isSaved property
getPostWithDetails(postId, currentUserId) ==
  LET result == {r \in posts : r.id = postId}
  IN  IF result = {} \/ UserOf((CHOOSE r \in result : TRUE).userId) = <<>>
      THEN <<>>
      ELSE LET post == CHOOSE r \in result : TRUE
           IN  << [id |-> post.id, userId |-> post.userId, createdAt |-> post.createdAt,
                   user |-> UserOf(post.userId)[1],
                   location |-> NULL,
                   likesCount |-> PostLikesCount(postId),
                   commentsCount |-> PostCommentsCount(postId),
                   isLiked |-> IF currentUserId # ""
                               THEN \E r \in likes :
                                      r.postId = postId /\ r.userId = currentUserId
                               ELSE FALSE ] >>

GetPostRoute(c, postId) ==
  /\ c \in sessions
  /\ LET post == getPostWithDetails(postId, c.sub)
     IN  resp' = IF post = <<>>
                 THEN Response("GET /api/posts/:postId", c.sub, postId, 404,
                               Message("Post not found"), post)
                 ELSE Response("GET /api/posts/:postId", c.sub, postId, 200,
                               post[1], post)
  /\ UNCHANGED <<adminEnv, sessions, tables, nextId, inflight>>

\* the per-row enrichment of getFeedPosts
FeedPostItem(post, userId) ==
  [id |-> post.id, userId |-> post.userId, createdAt |-> post.createdAt,
   user |-> UserOf(post.userId)[1],
   location |-> NULL,
   likesCount |-> PostLikesCount(post.id),
   commentsCount |-> PostCommentsCount(post.id),
   isLiked |-> \E r \in likes : r.postId = post.id /\ r.userId = userId,
   isSaved |-> \E r \in saves : r.postId = post.id /\ r.userId = userId]

\* "order by createdAt limit n": ascending where the query says desc
RECURSIVE OrderByCreatedAtAsc(_, _)
OrderByCreatedAtAsc(rows, limit) ==
  IF limit = 0 \/ rows = {}
  THEN {<<>>}
  ELSE UNION {{<<r>> \o s : s \in OrderByCreatedAtAsc(rows \ {r}, limit - 1)} :
                r \in {x \in rows : \A y \in rows : x.createdAt <= y.createdAt}}

\* the results "order by createdAt desc limit n" may give for a table: rows of
\* the same createdAt come in any order
RECURSIVE OrderByCreatedAtDesc(_, _)
OrderByCreatedAtDesc(rows, limit) ==
  IF limit = 0 \/ rows = {}
  THEN {<<>>}
  ELSE UNION {{<<r>> \o s : s \in OrderByCreatedAtDesc(rows \ {r}, limit - 1)} :
                r \in {x \in rows : \A y \in rows : x.createdAt >= y.createdAt}}

\* the base query of getFeedPosts
feedPostsQuery(limit) == OrderByCreatedAtDesc(posts, limit)

\* getFeedPosts over the posts of the viewer and of the users the viewer follows
getFeedPostsOfFollowed(userId, limit) ==
  {IF \E i \in DOMAIN feedPosts : UserOf(feedPosts[i].userId) = <<>>
   THEN [ok |-> FALSE, items |-> <<>>]
   ELSE [ok |-> TRUE,
         items |-> [i \in DOMAIN feedPosts |-> FeedPostItem(feedPosts[i], userId)]] :
     feedPosts \in OrderByCreatedAtDesc(
                     {r \in posts : r.userId = userId
                                      \/ \E f \in follows : f.followerId = userId
                                                              /\ f.followingId = r.userId},
                     limit)}

\* the outcomes of getFeedPosts: a list, or the throw of "Post has no user"
getFeedPosts(userId, limit) ==
  {IF \E i \in DOMAIN feedPosts : UserOf(feedPosts[i].userId) = <<>>
   THEN [ok |-> FALSE, items |-> <<>>]
   ELSE [ok |-> TRUE,
         items |-> [i \in DOMAIN feedPosts |-> FeedPostItem(feedPosts[i], userId)]] :
     feedPosts \in feedPostsQuery(limit)}

GetFeedPostsRoute(c) ==
  /\ c \in sessions
  /\ \E feed \in getFeedPosts(c.sub, FeedLimit) :
       resp' = IF feed.ok
               THEN Response("GET /api/posts/feed", c.sub, NULL, 200, feed.items, feed)
               ELSE Response("GET /api/posts/feed", c.sub, NULL, 500,
                             Message("Failed to fetch feed"), feed)
  /\ UNCHANGED <<adminEnv, sessions, tables, nextId, inflight>>

\* -------------------------------------------------------------------- likes
\* likePost whose existence check never finds a row
likePostSelectNothing(userId, postId) == {}

\* the rows the select of likePost matches
likePostSelect(userId, postId) ==
  {r \in likes : r.userId = userId /\ r.postId = postId}

likeVideoSelect(userId, videoId) ==
  {r \in likes : r.userId = userId /\ r.videoId = videoId}

\* "limit 1": no row, or any one of the matching rows
LimitOne(rows) == IF rows = {} THEN {<<>>} ELSE {<<r>> : r \in rows}

LikeRoute(kind) ==
  IF kind = "post" THEN "POST /api/likes/post/:postId" ELSE "POST /api/likes/video/:videoId"

\* likePost / likeVideo after the select: return the row found, or insert one
LikeInsert(req) ==
  /\ IF Len(req.existingLike) > 0
     THEN /\ resp' = Response(LikeRoute(req.kind), req.caller, req.target, 200,
                              req.existingLike[1], req.existingLike)
          /\ UNCHANGED <<likes, nextId>>
     ELSE /\ CanInsert
          /\ LET like == [id |-> nextId.likes, userId |-> req.caller,
                          postId |-> IF req.kind = "post" THEN req.target ELSE NULL,
                          videoId |-> IF req.kind = "video" THEN req.target ELSE NULL,
                          createdAt |-> Now("likes")]
             IN  /\ likes' = likes \cup {like}
                 /\ resp' = Response(LikeRoute(req.kind), req.caller, req.target, 200,
                                     like, req.existingLike)
          /\ nextId' = [nextId EXCEPT !.likes = @ + 1]
  /\ UNCHANGED <<adminEnv, sessions, users, posts, videos, locations, comments,
                 follows, saves>>

LikeRequest(c, kind, target, existing) ==
  [kind |-> kind, caller |-> c.sub, target |-> target, existingLike |-> existing]

\* a like request that runs alone: select and insert with nothing in between
LikePostRoute(c, postId) ==
  /\ c \in sessions
  /\ inflight = EmptyBag
  /\ \E existing \in LimitOne(likePostSelect(c.sub, postId)) :
       LikeInsert(LikeRequest(c, "post", postId, existing))
  /\ UNCHANGED inflight

\* first round-trip of a like request: the select
LikeSelect(c, kind, target) ==
  /\ c \in sessions
  /\ BagCardinality(inflight) < MaxInFlight
  /\ \E existing \in LimitOne(IF kind = "post" THEN likePostSelect(c.sub, target)
                              ELSE likeVideoSelect(c.sub, target)) :
       inflight' = inflight (+) SetToBag({LikeRequest(c, kind, target, existing)})
  /\ UNCHANGED <<adminEnv, sessions, tables, nextId, resp>>

\* second round-trip of a like request
LikeFinish(req) ==
  /\ req \in BagToSet(inflight)
  /\ inflight' = inflight (-) SetToBag({req})
  /\ LikeInsert(req)

\* unlikePost without the postId condition
unlikePostAnyPost(userId, postId) == {r \in likes : r.userId = userId}

\* the rows the delete of unlikePost removes and returns
unlikePost(userId, postId) ==
  {r \in likes : r.userId = userId /\ r.postId = postId}

unlikeVideo(userId, videoId) ==
  {r \in likes : r.userId = userId /\ r.videoId = videoId}

UnlikePostRoute(c, postId) ==
  /\ c \in sessions
  /\ likes' = likes \ unlikePost(c.sub, postId)
  /\ resp' = Response("DELETE /api/likes/post/:postId", c.sub, postId, 200, Success,
                      unlikePost(c.sub, postId))
  /\ UNCHANGED <<adminEnv, sessions, users, posts, videos, locations, comments,
                 follows, saves, nextId, inflight>>

UnlikeVideoRoute(c, videoId) ==
  /\ c \in sessions
  /\ likes' = likes \ unlikeVideo(c.sub, videoId)
  /\ resp' = Response("DELETE /api/likes/video/:videoId", c.sub, videoId, 200, Success,
                      unlikeVideo(c.sub, videoId))
  /\ UNCHANGED <<adminEnv, sessions, users, posts, videos, locations, comments,
                 follows, saves, nextId, inflight>>

\* -------------------------------------------------------------------- saves
savePostSelect(userId, postId) ==
  {r \in saves : r.userId = userId /\ r.postId = postId}

SavePostRoute(c, postId) ==
  /\ c \in sessions
  /\ \E existingSave \in LimitOne(savePostSelect(c.sub, postId)) :
       IF Len(existingSave) > 0
       THEN /\ resp' = Response("POST /api/saves/post/:postId", c.sub, postId, 200,
                                existingSave[1], existingSave[1])
            /\ UNCHANGED <<saves, nextId>>
       ELSE /\ CanInsert
            /\ LET save == [id |-> nextId.saves, userId |-> c.sub, postId |-> postId,
                            videoId |-> NULL, createdAt |-> Now("saves")]
               IN  /\ saves' = saves \cup {save}
                   /\ resp' = Response("POST /api/saves/post/:postId", c.sub, postId, 200,
                                       save, save)
            /\ nextId' = [nextId EXCEPT !.saves = @ + 1]
  /\ UNCHANGED <<adminEnv, sessions, users, posts, videos, locations, likes, comments,
                 follows, inflight>>

unsavePost(userId, postId) ==
  {r \in saves : r.userId = userId /\ r.postId = postId}

UnsavePostRoute(c, postId) ==
  /\ c \in sessions
  /\ saves' = saves \ unsavePost(c.sub, postId)
  /\ resp' = Response("DELETE /api/saves/post/:postId", c.sub, postId, 200, Success,
                      unsavePost(c.sub, postId))
  /\ UNCHANGED <<adminEnv, sessions, users, posts, videos, locations, likes, comments,
                 follows, nextId, inflight>>

\* ----------------------------------------------------------------- comments
\* request bodies of POST /api/comments: postId, videoId and text may be absent
CommentBodies ==
  [postId : {NULL} \cup PostTargets, videoId : {NULL} \cup VideoTargets,
   text : {<<>>, <<"nice!">>}]

\* insertCommentSchema.parse: text is required, postId and videoId are optional
insertCommentSchema(data) == Len(data.text) > 0

createComment(commentData) ==
  [id |-> nextId.comments, userId |-> commentData.userId, postId |-> commentData.postId,
   videoId |-> commentData.videoId, text |-> commentData.text[1], createdAt |-> Now("comments")]

CreateCommentRoute(c, body) ==
  /\ c \in sessions
  /\ LET commentData == [postId |-> body.postId, videoId |-> body.videoId,
                         text |-> body.text, userId |-> c.sub]
     IN  IF ~insertCommentSchema(commentData)
         THEN /\ resp' = Response("POST /api/comments", c.sub, NULL, 400,
                                  Message("Required"), <<>>)
              /\ UNCHANGED <<comments, nextId>>
         ELSE /\ CanInsert
              /\ comments' = comments \cup {createComment(commentData)}
              /\ resp' = Response("POST /api/comments", c.sub, NULL, 200,
                                  createComment(commentData), createComment(commentData))
              /\ nextId' = [nextId EXCEPT !.comments = @ + 1]
  /\ UNCHANGED <<adminEnv, sessions, users, posts, videos, locations, likes,
                 follows, saves, inflight>>

\* ------------------------------------------------------------------- videos
\* request bodies of POST /api/videos: videoUrl may be absent
VideoBodies == [videoUrl : {<<>>, <<"v.mp4">>}]

\* insertVideoSchema.parse: videoUrl is required
insertVideoSchema(data) == Len(data.videoUrl) > 0

createVideo(videoData) ==
  [id |-> nextId.videos, userId |-> videoData.userId, createdAt |-> Now("videos")]

CreateVideoRoute(c, body) ==
  /\ c \in sessions
  /\ LET videoData == [videoUrl |-> body.videoUrl, userId |-> c.sub]
     IN  IF ~insertVideoSchema(videoData)
         THEN /\ resp' = Response("POST /api/videos", c.sub, NULL, 400,
                                  Message("Required"), <<>>)
              /\ UNCHANGED <<videos, nextId>>
         ELSE /\ CanInsert
              /\ videos' = videos \cup {createVideo(videoData)}
              /\ resp' = Response("POST /api/videos", c.sub, NULL, 200,
                                  createVideo(videoData), createVideo(videoData))
              /\ nextId' = [nextId EXCEPT !.videos = @ + 1]
  /\ UNCHANGED <<adminEnv, sessions, users, posts, locations, likes, comments,
                 follows, saves, inflight>>

deleteVideo(videoId, userId) == {r \in videos : r.id = videoId /\ r.userId = userId}

deleteVideoAdmin(videoId) == {r \in videos : r.id = videoId}

DeleteVideoRoute(c, videoId) ==
  /\ c \in sessions
  /\ LET admin == isAdmin(c.email)
         result == IF admin THEN deleteVideoAdmin(videoId) ELSE deleteVideo(videoId, c.sub)
         deleted == Cardinality(result) > 0
     IN  /\ videos' = videos \ result
         /\ resp' = IF ~deleted
                    THEN Response("DELETE /api/videos/:videoId", c.sub, videoId, 404,
                                  Message("Video not found or unauthorized"), result)
                    ELSE Response("DELETE /api/videos/:videoId", c.sub, videoId, 200,
                                  Success, result)
  /\ UNCHANGED <<adminEnv, sessions, users, posts, locations, likes, comments,
                 follows, saves, nextId, inflight>>

\* ---------------------------------------------------------------- locations
\* request bodies of POST /api/locations: lat and lng may be absent
LocationBodies == [lat : {<<>>, <<"48.1">>}, lng : {<<"11.5">>}]

\* insertLocationSchema.parse: lat and lng are required
insertLocationSchema(data) == Len(data.lat) > 0 /\ Len(data.lng) > 0

createLocation(locationData) ==
  [id |-> nextId.locations, userId |-> locationData.userId, createdAt |-> Now("locations")]

CreateLocationRoute(c, body) ==
  /\ c \in sessions
  /\ LET locationData == [lat |-> body.lat, lng |-> body.lng, userId |-> c.sub]
     IN  IF ~insertLocationSchema(locationData)
         THEN /\ resp' = Response("POST /api/locations", c.sub, NULL, 400,
                                  Message("Required"), <<>>)
              /\ UNCHANGED <<locations, nextId>>
         ELSE /\ CanInsert
              /\ locations' = locations \cup {createLocation(locationData)}
              /\ resp' = Response("POST /api/locations", c.sub, NULL, 200,
                                  createLocation(locationData), createLocation(locationData))
              /\ nextId' = [nextId EXCEPT !.locations = @ + 1]
  /\ UNCHANGED <<adminEnv, sessions, users, posts, videos, likes, comments,
                 follows, saves, inflight>>

deleteLocation(locationId, userId) ==
  {r \in locations : r.id = locationId /\ r.userId = userId}

deleteLocationAdmin(locationId) == {r \in locations : r.id = locationId}

DeleteLocationRoute(c, locationId) ==
  /\ c \in sessions
  /\ LET admin == isAdmin(c.email)
         result == IF admin THEN deleteLocationAdmin(locationId)
                   ELSE deleteLocation(locationId, c.sub)
         deleted == Cardinality(result) > 0
     IN  /\ locations' = locations \ result
         /\ resp' = IF ~deleted
                    THEN Response("DELETE /api/locations/:locationId", c.sub, locationId, 404,
                                  Message("Location not found or unauthorized"), result)
                    ELSE Response("DELETE /api/locations/:locationId", c.sub, locationId, 200,
                                  Success, result)
  /\ UNCHANGED <<adminEnv, sessions, users, posts, videos, likes, comments,
                 follows, saves, nextId, inflight>>

\* --------------------------------------------------------- deleting comments
\* deleteComment without the userId condition
deleteCommentAnyOwner(commentId, userId) == {r \in comments : r.id = commentId}

deleteComment(commentId, userId) ==
  {r \in comments : r.id = commentId /\ r.userId = userId}

deleteCommentAdmin(commentId) == {r \in comments : r.id = commentId}

DeleteCommentRoute(c, commentId) ==
  /\ c \in sessions
  /\ LET admin == isAdmin(c.email)
         result == IF admin THEN deleteCommentAdmin(commentId)
                   ELSE deleteComment(commentId, c.sub)
         deleted == Cardinality(result) > 0
     IN  /\ comments' = comments \ result
         /\ resp' = IF ~deleted
                    THEN Response("DELETE /api/comments/:commentId", c.sub, commentId, 404,
                                  Message("Comment not found or unauthorized"), result)
                    ELSE Response("DELETE /api/comments/:commentId", c.sub, commentId, 200,
                                  Success, result)
  /\ UNCHANGED <<adminEnv, sessions, users, posts, videos, locations, likes,
                 follows, saves, nextId, inflight>>

\* ------------------------------------------------------------------ follows
followUser(followerId, followingId) ==
  [id |-> nextId.follows, followerId |-> followerId, followingId |-> followingId,
   createdAt |-> Now("follows")]

\* unfollowUser that deletes one of the matching rows
unfollowUserOneRow(followerId, followingId) ==
  LET rows == {r \in follows : r.followerId = followerId /\ r.followingId = followingId}
  IN  IF rows = {} THEN {} ELSE {CHOOSE r \in rows : TRUE}

unfollowUser(followerId, followingId) ==
  {r \in follows : r.followerId = followerId /\ r.followingId = followingId}

\* isFollowing with follower and followee exchanged
isFollowingReversed(followerId, followingId) ==
  \E r \in follows : r.followerId = followingId /\ r.followingId = followerId

isFollowing(followerId, followingId) ==
  \E r \in follows : r.followerId = followerId /\ r.followingId = followingId

\* the follow route without its self-follow guard
IsSelfFollowNever(followerId, followingId) == FALSE

\* the guard of POST /api/follows/:userId
IsSelfFollow(followerId, followingId) == followerId = followingId

FollowRoute(c, userId) ==
  /\ c \in sessions
  /\ LET followerId == c.sub
         followingId == userId
     IN  IF IsSelfFollow(followerId, followingId)
         THEN /\ resp' = Response("POST /api/follows/:userId", c.sub, userId, 400,
                                  Message("Cannot follow yourself"), <<>>)
              /\ UNCHANGED <<follows, nextId>>
         ELSE /\ CanInsert
              /\ follows' = follows \cup {followUser(followerId, followingId)}
              /\ resp' = Response("POST /api/follows/:userId", c.sub, userId, 200,
                                  followUser(followerId, followingId),
                                  followUser(followerId, followingId))
              /\ nextId' = [nextId EXCEPT !.follows = @ + 1]
  /\ UNCHANGED <<adminEnv, sessions, users, posts, videos, locations, likes, comments,
                 saves, inflight>>

UnfollowRoute(c, userId) ==
  /\ c \in sessions
  /\ LET result == unfollowUser(c.sub, userId)
         unfollowed == Cardinality(result) > 0
     IN  /\ follows' = follows \ result
         /\ resp' = IF ~unfollowed
                    THEN Response("DELETE /api/follows/:userId", c.sub, userId, 404,
                                  Message("Follow relationship not found"), result)
                    ELSE Response("DELETE /api/follows/:userId", c.sub, userId, 200,
                                  Success, result)
  /\ UNCHANGED <<adminEnv, sessions, users, posts, videos, locations, likes, comments,
                 saves, nextId, inflight>>

\* <<>> is undefined
getUserProfile(userId, currentUserId) ==
  IF UserOf(userId) = <<>>
  THEN <<>>
  ELSE << [id |-> userId, email |-> UserOf(userId)[1].email,
           firstName |-> UserOf(userId)[1].firstName,
           lastName |-> UserOf(userId)[1].lastName,
           bio |-> UserOf(userId)[1].bio,
           profileImageUrl |-> UserOf(userId)[1].profileImageUrl,
           postsCount |-> Cardinality({r \in posts : r.userId = userId}),
           followersCount |-> Cardinality({r \in follows : r.followingId = userId}),
           followingCount |-> Cardinality({r \in follows : r.followerId = userId}),
           isFollowing |-> IF currentUserId # "" /\ currentUserId # userId
                           THEN isFollowing(currentUserId, userId)
                           ELSE FALSE] >>

\* a call of storage.getUserProfile; currentUserId "" is the argument left out;
\* status 200 stands for a returned profile, 404 for undefined
GetUserProfileCall(userId, currentUserId) ==
  /\ LET profile == getUserProfile(userId, currentUserId)
     IN  resp' = IF profile = <<>>
                 THEN Response("storage.getUserProfile", currentUserId, userId, 404,
                               <<>>, profile)
                 ELSE Response("storage.getUserProfile", currentUserId, userId, 200,
                               profile[1], profile)
  /\ UNCHANGED <<adminEnv, sessions, tables, nextId, inflight>>

\* "": the route was called without the :userId parameter
GetProfileRoute(c, param) ==
  /\ c \in sessions
  /\ LET currentUserId == c.sub
         userId == IF param # "" THEN param ELSE currentUserId
         profile == getUserProfile(userId, currentUserId)
     IN  resp' = IF profile = <<>>
                 THEN Response("GET /api/users/profile/:userId?", c.sub, param, 404,
                               Message("User not found"), profile)
                 ELSE Response("GET /api/users/profile/:userId?", c.sub, param, 200,
                               profile[1], profile)
  /\ UNCHANGED <<adminEnv, sessions, tables, nextId, inflight>>

\* ----------------------------------------------------------- admin listings
\* "order by createdAt desc" without a limit
OrderByCreatedAtDescAll(rows) == OrderByCreatedAtDesc(rows, Cardinality(rows))

VideoLikesCount(videoId) == Cardinality({r \in likes : r.videoId = videoId})
VideoCommentsCount(videoId) == Cardinality({r \in comments : r.videoId = videoId})

\* the outcomes of the storage reads below: a list, or the throw of "... has no user"
Listing(rows, items) ==
  IF \E i \in DOMAIN rows : UserOf(rows[i].userId) = <<>>
  THEN [ok |-> FALSE, items |-> <<>>]
  ELSE [ok |-> TRUE, items |-> items]

AdminPostItem(post) ==
  [id |-> post.id, userId |-> post.userId, createdAt |-> post.createdAt,
   user |-> UserOf(post.userId)[1], location |-> NULL,
   likesCount |-> PostLikesCount(post.id), commentsCount |-> PostCommentsCount(post.id),
   isLiked |-> FALSE]

getAllPosts ==
  {Listing(allPosts, [i \in DOMAIN allPosts |-> AdminPostItem(allPosts[i])]) :
     allPosts \in OrderByCreatedAtDescAll(posts)}

AdminVideoItem(video) ==
  [id |-> video.id, userId |-> video.userId, createdAt |-> video.createdAt,
   user |-> UserOf(video.userId)[1], location |-> NULL,
   likesCount |-> VideoLikesCount(video.id), commentsCount |-> VideoCommentsCount(video.id),
   isLiked |-> FALSE]

getAllVideos ==
  {Listing(allVideos, [i \in DOMAIN allVideos |-> AdminVideoItem(allVideos[i])]) :
     allVideos \in OrderByCreatedAtDescAll(videos)}

\* posts are created without a locationId, so no post counts for a location
LocationItem(location) ==
  [id |-> location.id, userId |-> location.userId, createdAt |-> location.createdAt,
   user |-> UserOf(location.userId)[1], postsCount |-> 0]

getAllLocations ==
  {Listing(allLocations, [i \in DOMAIN allLocations |-> LocationItem(allLocations[i])]) :
     allLocations \in OrderByCreatedAtDescAll(locations)}

CommentItem(comment) ==
  [id |-> comment.id, userId |-> comment.userId, postId |-> comment.postId,
   videoId |-> comment.videoId, text |-> comment.text, createdAt |-> comment.createdAt,
   user |-> UserOf(comment.userId)[1]]

getAllComments ==
  {Listing(allComments, [i \in DOMAIN allComments |-> CommentItem(allComments[i])]) :
     allComments \in OrderByCreatedAtDescAll(comments)}

AdminKinds == {"posts", "videos", "locations", "comments"}

AdminRouteOf(kind) ==
  CASE kind = "posts" -> "GET /api/admin/posts"
    [] kind = "videos" -> "GET /api/admin/videos"
    [] kind = "locations" -> "GET /api/admin/locations"
    [] kind = "comments" -> "GET /api/admin/comments"

AdminFailureOf(kind) ==
  CASE kind = "posts" -> "Failed to fetch posts"
    [] kind = "videos" -> "Failed to fetch videos"
    [] kind = "locations" -> "Failed to fetch locations"
    [] kind = "comments" -> "Failed to fetch comments"

getAll(kind) ==
  CASE kind = "posts" -> getAllPosts
    [] kind = "videos" -> getAllVideos
    [] kind = "locations" -> getAllLocations
    [] kind = "comments" -> getAllComments

\* the four admin listing handlers; store is <<>> when the handler returned before
\* calling the store and <<outcome>> when it called getAll...
AdminListRoute(c, kind) ==
  /\ c \in sessions
  /\ LET userEmail == c.email
     IN  IF ~isAdmin(userEmail)
         THEN resp' = Response(AdminRouteOf(kind), c.sub, NULL, 403,
                               Message("Forbidden - Admin access required"), <<>>)
         ELSE \E all \in getAll(kind) :
                resp' = IF all.ok
                        THEN Response(AdminRouteOf(kind), c.sub, NULL, 200, all.items, <<all>>)
                        ELSE Response(AdminRouteOf(kind), c.sub, NULL, 500,
                                      Message(AdminFailureOf(kind)), <<all>>)
  /\ UNCHANGED <<adminEnv, sessions, tables, nextId, inflight>>

\* --------------------------------------------------------------- video feed
FeedVideoItem(video, userId) ==
  [id |-> video.id, userId |-> video.userId, createdAt |-> video.createdAt,
   user |-> UserOf(video.userId)[1],
   location |-> NULL,
   likesCount |-> VideoLikesCount(video.id),
   commentsCount |-> VideoCommentsCount(video.id),
   isLiked |-> \E r \in likes : r.videoId = video.id /\ r.userId = userId,
   isSaved |-> \E r \in saves : r.videoId = video.id /\ r.userId = userId]

\* the base query of getFeedVideos
feedVideosQuery(limit) == OrderByCreatedAtDesc(videos, limit)

\* the outcomes of getFeedVideos: a list, or the throw of "Video has no user"
getFeedVideos(userId, limit) ==
  {IF \E i \in DOMAIN feedVideos : UserOf(feedVideos[i].userId) = <<>>
   THEN [ok |-> FALSE, items |-> <<>>]
   ELSE [ok |-> TRUE,
         items |-> [i \in DOMAIN feedVideos |-> FeedVideoItem(feedVideos[i], userId)]] :
     feedVideos \in feedVideosQuery(limit)}

GetFeedVideosRoute(c) ==
  /\ c \in sessions
  /\ \E feed \in getFeedVideos(c.sub, FeedLimit) :
       resp' = IF feed.ok
               THEN Response("GET /api/videos/feed", c.sub, NULL, 200, feed.items, feed)
               ELSE Response("GET /api/videos/feed", c.sub, NULL, 500,
                             Message("Failed to fetch video feed"), feed)
  /\ UNCHANGED <<adminEnv, sessions, tables, nextId, inflight>>

\* values of the limit parameter of getFeedPosts / getFeedVideos
FeedLimits == {1, 2, FeedLimit}

\* a call of storage.getFeedPosts / getFeedVideos with a limit of the caller's choice;
\* status 200 stands for a returned list, 500 for a throw
FeedCall(kind) == IF kind = "posts" THEN "storage.getFeedPosts" ELSE "storage.getFeedVideos"

GetFeedCall(c, kind, limit) ==
  /\ c \in sessions
  /\ \E feed \in (IF kind = "posts" THEN getFeedPosts(c.sub, limit)
                  ELSE getFeedVideos(c.sub, limit)) :
       resp' = Response(FeedCall(kind), c.sub, limit, IF feed.ok THEN 200 ELSE 500,
                        feed.items, feed)
  /\ UNCHANGED <<adminEnv, sessions, tables, nextId, inflight>>

\* -------------------------------------------------------------- saved lists
saveVideoSelect(userId, videoId) ==
  {r \in saves : r.userId = userId /\ r.videoId = videoId}

SaveVideoRoute(c, videoId) ==
  /\ c \in sessions
  /\ \E existingSave \in LimitOne(saveVideoSelect(c.sub, videoId)) :
       IF Len(existingSave) > 0
       THEN /\ resp' = Response("POST /api/saves/video/:videoId", c.sub, videoId, 200,
                                existingSave[1], existingSave[1])
            /\ UNCHANGED <<saves, nextId>>
       ELSE /\ CanInsert
            /\ LET save == [id |-> nextId.saves, userId |-> c.sub, postId |-> NULL,
                            videoId |-> videoId, createdAt |-> Now("saves")]
               IN  /\ saves' = saves \cup {save}
                   /\ resp' = Response("POST /api/saves/video/:videoId", c.sub, videoId, 200,
                                       save, save)
            /\ nextId' = [nextId EXCEPT !.saves = @ + 1]
  /\ UNCHANGED <<adminEnv, sessions, users, posts, videos, locations, likes, comments,
                 follows, inflight>>

isLikedPost(userId, postId) == \E r \in likes : r.userId = userId /\ r.postId = postId

isLikedVideo(userId, videoId) == \E r \in likes : r.userId = userId /\ r.videoId = videoId

\* the query of getSavedPosts without the userId condition
savedPostsQueryAnyUser(userId) ==
  {s \in saves : s.postId # NULL /\ \E p \in posts : p.id = s.postId}

\* the Save rows the query of getSavedPosts keeps: those of the user that join a post
savedPostsQuery(userId) ==
  {s \in saves : s.userId = userId /\ s.postId # NULL /\ \E p \in posts : p.id = s.postId}

\* user is the left-joined user as it is, <<>> when missing ("user!" checks nothing)
SavedPostItem(post, userId) ==
  [id |-> post.id, userId |-> post.userId, createdAt |-> post.createdAt,
   user |-> UserOf(post.userId), location |-> NULL,
   likesCount |-> PostLikesCount(post.id), commentsCount |-> PostCommentsCount(post.id),
   isLiked |-> isLikedPost(userId, post.id)]

\* the lists getSavedPosts may return: one item per joined Save row, newest save first
getSavedPosts(userId) ==
  {[i \in DOMAIN savedPosts |->
      SavedPostItem(CHOOSE p \in posts : p.id = savedPosts[i].postId, userId)] :
     savedPosts \in OrderByCreatedAtDescAll(savedPostsQuery(userId))}

GetSavedPostsRoute(c) ==
  /\ c \in sessions
  /\ \E savedPosts \in getSavedPosts(c.sub) :
       resp' = Response("GET /api/saves/posts", c.sub, NULL, 200, savedPosts, savedPosts)
  /\ UNCHANGED <<adminEnv, sessions, tables, nextId, inflight>>

savedVideosQuery(userId) ==
  {s \in saves : s.userId = userId /\ s.videoId # NULL /\ \E v \in videos : v.id = s.videoId}

SavedVideoItem(video, userId) ==
  [id |-> video.id, userId |-> video.userId, createdAt |-> video.createdAt,
   user |-> UserOf(video.userId), location |-> NULL,
   likesCount |-> VideoLikesCount(video.id), commentsCount |-> VideoCommentsCount(video.id),
   isLiked |-> isLikedVideo(userId, video.id)]

getSavedVideos(userId) ==
  {[i \in DOMAIN savedVideos |->
      SavedVideoItem(CHOOSE v \in videos : v.id = savedVideos[i].videoId, userId)] :
     savedVideos \in OrderByCreatedAtDescAll(savedVideosQuery(userId))}

GetSavedVideosRoute(c) ==
  /\ c \in sessions
  /\ \E savedVideos \in getSavedVideos(c.sub) :
       resp' = Response("GET /api/saves/videos", c.sub, NULL, 200, savedVideos, savedVideos)
  /\ UNCHANGED <<adminEnv, sessions, tables, nextId, inflight>>

\* ----------------------------------------------------------- store failures
\* the catch block of each handler above: the status it sends, its fixed message,
\* and whether it sends error.message when there is one
Catch(route, status, message, detail) ==
  [route |-> route, status |-> status, message |-> message, detail |-> detail]

AdminCatchBlocks ==
  {Catch(AdminRouteOf(kind), 500, AdminFailureOf(kind), FALSE) : kind \in AdminKinds}

CatchBlocks ==
  { Catch("PUT /api/users/profile", 500, "Failed to update profile", FALSE),
    Catch("GET /api/users/profile/:userId?", 500, "Failed to fetch user profile", FALSE),
    Catch("POST /api/posts", 400, "Failed to create post", TRUE),
    Catch("GET /api/posts/feed", 500, "Failed to fetch feed", FALSE),
    Catch("GET /api/posts/:postId", 500, "Failed to fetch post", FALSE),
    Catch("DELETE /api/posts/:postId", 500, "Failed to delete post", FALSE),
    Catch("POST /api/videos", 400, "Failed to create video", TRUE),
    Catch("GET /api/videos/feed", 500, "Failed to fetch video feed", FALSE),
    Catch("DELETE /api/videos/:videoId", 500, "Failed to delete video", FALSE),
    Catch("POST /api/locations", 400, "Failed to create location", TRUE),
    Catch("DELETE /api/locations/:locationId", 500, "Failed to delete location", FALSE),
    Catch("POST /api/likes/post/:postId", 500, "Failed to like post", FALSE),
    Catch("DELETE /api/likes/post/:postId", 500, "Failed to unlike post", FALSE),
    Catch("POST /api/likes/video/:videoId", 500, "Failed to like video", FALSE),
    Catch("DELETE /api/likes/video/:videoId", 500, "Failed to unlike video", FALSE),
    Catch("POST /api/saves/post/:postId", 500, "Failed to save post", FALSE),
    Catch("DELETE /api/saves/post/:postId", 500, "Failed to unsave post", FALSE),
    Catch("POST /api/saves/video/:videoId", 500, "Failed to save video", FALSE),
    Catch("GET /api/saves/posts", 500, "Failed to fetch saved posts", FALSE),
    Catch("GET /api/saves/videos", 500, "Failed to fetch saved videos", FALSE),
    Catch("POST /api/comments", 400, "Failed to create comment", TRUE),
    Catch("DELETE /api/comments/:commentId", 500, "Failed to delete comment", FALSE),
    Catch("POST /api/follows/:userId", 500, "Failed to follow user", FALSE),
    Catch("DELETE /api/follows/:userId", 500, "Failed to unfollow user", FALSE) }
  \cup AdminCatchBlocks

\* error.message of what a failing store call throws; "" is an error without one
StoreErrors == {"", "connect ECONNREFUSED"}

\* a request that passed the checks of its handler and whose store call throws:
\* the catch block answers and no table changes
StoreThrows(c, catch, error) ==
  /\ c \in sessions
  /\ catch \in AdminCatchBlocks => isAdmin(c.email)
  /\ resp' = Thrown(catch.route, c.sub, catch.status,
                    Message(IF catch.detail /\ error # "" THEN error ELSE catch.message),
                    error)
  /\ UNCHANGED <<adminEnv, sessions, tables, nextId, inflight>>

\* ------------------------------------------------------ requests, no session
\* the routes registerRoutes registers
RegisteredRoutes ==
  { "GET /api/auth/user",
    "PUT /api/users/profile",
    "POST /api/objects/upload",
    "GET /objects/:objectPath(*)",
    "GET /public-objects/:objectPath(*)",
    "PUT /api/location-images",
    "PUT /api/media-images",
    "POST /api/route",
    "GET /api/admin/posts",
    "GET /api/admin/videos",
    "GET /api/admin/locations",
    "GET /api/admin/comments",
    "GET /api/users/profile/:userId?",
    "PATCH /api/users/bio",
    "POST /api/posts",
    "GET /api/posts/feed",
    "GET /api/posts/user/:userId?",
    "GET /api/posts/:postId",
    "DELETE /api/posts/:postId",
    "POST /api/videos",
    "GET /api/videos/feed",
    "GET /api/videos/user/:userId?",
    "GET /api/videos/:videoId",
    "DELETE /api/videos/:videoId",
    "POST /api/locations",
    "GET /api/locations",
    "GET /api/locations/user/:userId?",
    "GET /api/locations/:locationId",
    "DELETE /api/locations/:locationId",
    "POST /api/likes/post/:postId",
    "DELETE /api/likes/post/:postId",
    "POST /api/likes/video/:videoId",
    "DELETE /api/likes/video/:videoId",
    "POST /api/saves/post/:postId",
    "DELETE /api/saves/post/:postId",
    "POST /api/saves/video/:videoId",
    "DELETE /api/saves/video/:videoId",
    "GET /api/saves/posts",
    "GET /api/saves/videos",
    "POST /api/comments",
    "GET /api/comments/post/:postId",
    "GET /api/comments/video/:videoId",
    "DELETE /api/comments/:commentId",
    "POST /api/follows/:userId",
    "DELETE /api/follows/:userId" }

\* Gated with the listing of all locations registered without isAuthenticated
GatedButLocations(route) ==
  route \notin {"GET /public-objects/:objectPath(*)", "POST /api/route", "GET /api/locations"}

\* whether isAuthenticated stands before the handler in the registration of the route
Gated(route) == route \notin {"GET /public-objects/:objectPath(*)", "POST /api/route"}

\* the middleware: lets the request through when the caller holds a session
isAuthenticated(c) == c \in sessions

GetLocationsRoute(c) ==
  /\ isAuthenticated(c)
  /\ \E all \in getAllLocations :
       resp' = IF all.ok
               THEN Response("GET /api/locations", c.sub, NULL, 200, all.items, <<all>>)
               ELSE Response("GET /api/locations", c.sub, NULL, 500,
                             Message("Failed to fetch locations"), <<all>>)
  /\ UNCHANGED <<adminEnv, sessions, tables, nextId, inflight>>

\* what the object store or the routing service makes of a request
PublicStatuses == {200, 404, 500}

\* a request of a caller without a session ("": no req.user). A gated route ends at
\* isAuthenticated with 401. The handlers registered without it are those of the
\* public-object download and of the route proxy, which call no storage method
\* (store is <<>>); the handler of GET /api/locations reads no req.user.
AnonymousRequest(route) ==
  /\ route \in RegisteredRoutes
  /\ IF Gated(route)
     THEN resp' = Response(route, "", NULL, 401, Message("Unauthorized"), <<>>)
     ELSE IF route = "GET /api/locations"
          THEN \E all \in getAllLocations :
                 resp' = Response(route, "", NULL, 200, all.items, <<all>>)
          ELSE \E status \in PublicStatuses :
                 resp' = Response(route, "", NULL, status, <<>>, <<>>)
  /\ UNCHANGED <<adminEnv, sessions, tables, nextId, inflight>>

\* ------------------------------------------------------------------ profile
\* an identity whose email is the one of u1: upsertUser gives it no row of its own
\* once u1 has one
SharedEmailIdentity == [sub |-> "u3", email |-> <<"a">>]

ProfileIdentities == {c \in Identities : c.sub = "u1"} \cup {SharedEmailIdentity}

\* String.prototype.repeat
Repeat(char, n) == [i \in 1..n |-> char]

\* request bodies of PUT /api/users/profile: each field absent (<<>>) or a string
ProfileBodies ==
  [firstName : {<< <<" ">> >>, << <<"A", "l", " ">> >>, <<Repeat("x", NameMax + 1)>>},
   lastName : {<<>>, << <<"L", "i">> >>},
   bio : {<<>>, << <<>> >>, << <<" ">> >>, << <<" ", "h", "i">> >>},
   profileImageUrl : {<<>>, << <<>> >>, << <<" ">> >>, << <<"a", ":", "b", " ">> >>}]

\* z.string().url(): an absolute URL, which starts with a scheme and a colon
isUrl(s) ==
  \E i \in 2..Len(s) : s[i] = ":" /\ \A j \in 1..(i - 1) : s[j] \in {"a", "b", "c"}

\* the outcome of a field schema: failure, or the parsed value (<<>> is undefined)
Invalid == [ok |-> FALSE, value |-> <<>>]
Parsed(value) == [ok |-> TRUE, value |-> value]

\* z.string().trim().min(1).max(50)
ParseName(field) ==
  IF field = <<>> THEN Invalid
  ELSE IF Len(trim(field[1])) >= 1 /\ Len(trim(field[1])) <= NameMax
       THEN Parsed(<<trim(field[1])>>)
       ELSE Invalid

\* z.string().trim().max(500).optional().or(z.literal(""))
ParseBio(field) ==
  IF field = <<>> THEN Parsed(<<>>)
  ELSE IF Len(trim(field[1])) <= BioMax THEN Parsed(<<trim(field[1])>>)
       ELSE IF field[1] = <<>> THEN Parsed(field)
            ELSE Invalid

\* z.string().trim().url().optional().or(z.literal(""))
ParseProfileImageUrl(field) ==
  IF field = <<>> THEN Parsed(<<>>)
  ELSE IF isUrl(trim(field[1])) THEN Parsed(<<trim(field[1])>>)
       ELSE IF field[1] = <<>> THEN Parsed(field)
            ELSE Invalid

\* updateProfileSchema.safeParse
updateProfileSchema(body) ==
  LET result == [firstName |-> ParseName(body.firstName),
                 lastName |-> ParseName(body.lastName),
                 bio |-> ParseBio(body.bio),
                 profileImageUrl |-> ParseProfileImageUrl(body.profileImageUrl)]
  IN  [success |-> \A f \in DOMAIN result : result[f].ok,
       data |-> [f \in DOMAIN result |-> result[f].value],
       errors |-> {f \in DOMAIN result : ~result[f].ok}]

\* "value || null" of a string that is defined: the column value to write
OrNull(value) == IF value[1] = <<>> THEN <<>> ELSE value

\* updateUserProfile that takes a null for a field that was not given
updateUserProfileSkipsNull(userId, data) ==
  {[r EXCEPT !.firstName = IF data.firstName # <<>> THEN data.firstName[1] ELSE @,
             !.lastName = IF data.lastName # <<>> THEN data.lastName[1] ELSE @,
             !.bio = IF data.bio # <<>> /\ data.bio[1] # <<>> THEN data.bio[1] ELSE @,
             !.profileImageUrl = IF data.profileImageUrl # <<>> /\ data.profileImageUrl[1] # <<>>
                                 THEN data.profileImageUrl[1] ELSE @] :
     r \in {u \in users : u.id = userId}}

\* the rows updateUserProfile writes: a field of data is <<>> when it is undefined
\* and <<column value>> when it is given
updateUserProfile(userId, data) ==
  {[r EXCEPT !.firstName = IF data.firstName # <<>> THEN data.firstName[1] ELSE @,
             !.lastName = IF data.lastName # <<>> THEN data.lastName[1] ELSE @,
             !.bio = IF data.bio # <<>> THEN data.bio[1] ELSE @,
             !.profileImageUrl = IF data.profileImageUrl # <<>>
                                 THEN data.profileImageUrl[1] ELSE @] :
     r \in {u \in users : u.id = userId}}

\* target is the request body; with no row of the caller, updatedUser is undefined
\* and reading updatedUser.id throws into the catch block
PutProfileRoute(c, body) ==
  /\ isAuthenticated(c)
  /\ LET userId == c.sub
         validationResult == updateProfileSchema(body)
         parsed == validationResult.data
         updateData == [firstName |-> <<parsed.firstName>>,
                        lastName |-> <<parsed.lastName>>,
                        bio |-> IF parsed.bio # <<>> THEN <<OrNull(parsed.bio)>> ELSE <<>>,
                        profileImageUrl |-> IF parsed.profileImageUrl # <<>>
                                            THEN <<OrNull(parsed.profileImageUrl)>>
                                            ELSE <<>>]
         updated == updateUserProfile(userId, updateData)
     IN  IF ~validationResult.success
         THEN /\ resp' = Response("PUT /api/users/profile", c.sub, body, 400,
                                  [message |-> "Invalid profile data",
                                   errors |-> validationResult.errors], <<>>)
              /\ UNCHANGED users
         ELSE /\ users' = {u \in users : u.id # userId} \cup updated
              /\ resp' = IF updated = {}
                         THEN [Thrown("PUT /api/users/profile", c.sub, 500,
                                      Message("Failed to update profile"),
                                      "Cannot read properties of undefined")
                                 EXCEPT !.target = body]
                         ELSE LET updatedUser == CHOOSE u \in updated : TRUE
                              IN  Response("PUT /api/users/profile", c.sub, body, 200,
                                           [id |-> updatedUser.id,
                                            email |-> updatedUser.email,
                                            firstName |-> updatedUser.firstName,
                                            lastName |-> updatedUser.lastName,
                                            bio |-> updatedUser.bio,
                                            profileImageUrl |-> updatedUser.profileImageUrl],
                                           updated)
  /\ UNCHANGED <<adminEnv, sessions, posts, videos, locations, likes, comments, follows,
                 saves, nextId, inflight>>

\* ------------------------------------------------------------ comment lists
getPostComments(postId) ==
  {Listing(postComments, [i \in DOMAIN postComments |-> CommentItem(postComments[i])]) :
     postComments \in OrderByCreatedAtDescAll({r \in comments : r.postId = postId})}

getVideoComments(videoId) ==
  {Listing(videoComments, [i \in DOMAIN videoComments |-> CommentItem(videoComments[i])]) :
     videoComments \in OrderByCreatedAtDescAll({r \in comments : r.videoId = videoId})}

GetPostCommentsRoute(c, postId) ==
  /\ isAuthenticated(c)
  /\ \E list \in getPostComments(postId) :
       resp' = IF list.ok
               THEN Response("GET /api/comments/post/:postId", c.sub, postId, 200,
                             list.items, <<list>>)
               ELSE Response("GET /api/comments/post/:postId", c.sub, postId, 500,
                             Message("Failed to fetch comments"), <<list>>)
  /\ UNCHANGED <<adminEnv, sessions, tables, nextId, inflight>>

GetVideoCommentsRoute(c, videoId) ==
  /\ isAuthenticated(c)
  /\ \E list \in getVideoComments(videoId) :
       resp' = IF list.ok
               THEN Response("GET /api/comments/video/:videoId", c.sub, videoId, 200,
                             list.items, <<list>>)
               ELSE Response("GET /api/comments/video/:videoId", c.sub, videoId, 500,
                             Message("Failed to fetch comments"), <<list>>)
  /\ UNCHANGED <<adminEnv, sessions, tables, nextId, inflight>>

\* ------------------------------------------------------------- single video
\* getVideoWithDetails without the check of the joined user
getVideoWithDetailsNoUserCheck(videoId, currentUserId) ==
  LET result == {r \in videos : r.id = videoId}
  IN  IF result = {}
      THEN <<>>
      ELSE LET video == CHOOSE r \in result : TRUE
           IN  << [id |-> video.id, userId |-> video.userId, createdAt |-> video.createdAt,
                   user |-> UserOf(video.userId),
                   location |-> NULL,
                   likesCount |-> VideoLikesCount(videoId),
                   commentsCount |-> VideoCommentsCount(videoId),
                   isLiked |-> IF currentUserId # ""
                               THEN \E r \in likes :
                                      r.videoId = videoId /\ r.userId = currentUserId
                               ELSE FALSE ] >>

\* <<>> is undefined; the view has no isSaved property
getVideoWithDetails(videoId, currentUserId) ==
  LET result == {r \in videos : r.id = videoId}
  IN  IF result = {} \/ UserOf((CHOOSE r \in result : TRUE).userId) = <<>>
      THEN <<>>
      ELSE LET video == CHOOSE r \in result : TRUE
           IN  << [id |-> video.id, userId |-> video.userId, createdAt |-> video.createdAt,
                   user |-> UserOf(video.userId)[1],
                   location |-> NULL,
                   likesCount |-> VideoLikesCount(videoId),
                   commentsCount |-> VideoCommentsCount(videoId),
                   isLiked |-> IF currentUserId # ""
                               THEN \E r \in likes :
                                      r.videoId = videoId /\ r.userId = currentUserId
                               ELSE FALSE ] >>

GetVideoRoute(c, videoId) ==
  /\ isAuthenticated(c)
  /\ LET video == getVideoWithDetails(videoId, c.sub)
     IN  resp' = IF video = <<>>
                 THEN Response("GET /api/videos/:videoId", c.sub, videoId, 404,
                               Message("Video not found"), video)
                 ELSE Response("GET /api/videos/:videoId", c.sub, videoId, 200,
                               video[1], video)
  /\ UNCHANGED <<adminEnv, sessions, tables, nextId, inflight>>

\* ------------------------------------------------------ users without a row
\* the callers of the requests below: u1 and u3 carry one email, so that the one who
\* logs in second holds a session and has no user row
AllIdentities == Identities \cup {SharedEmailIdentity}

\* ------------------------------------------- enriched lists, lookup by lookup
\* The reads that map an async callback over the rows of their base query and await
\* Promise.all: a read is in flight (in inflight) from its base query to its return,
\* and each step is one store round-trip of the callback of one row.
EnrichKinds == {"feedPosts", "feedVideos", "allPosts", "savedPosts"}

EnrichRouteOf(kind) ==
  CASE kind = "feedPosts" -> "GET /api/posts/feed"
    [] kind = "feedVideos" -> "GET /api/videos/feed"
    [] kind = "allPosts" -> "GET /api/admin/posts"
    [] kind = "savedPosts" -> "GET /api/saves/posts"

EnrichFailureOf(kind) ==
  CASE kind = "feedPosts" -> "Failed to fetch feed"
    [] kind = "feedVideos" -> "Failed to fetch video feed"
    [] kind = "allPosts" -> "Failed to fetch posts"
    [] kind = "savedPosts" -> "Failed to fetch saved posts"

\* the results the base query may give: the rows in order, each with its joined user
baseQuery(kind, userId) ==
  LET ordered ==
        CASE kind = "feedPosts" -> feedPostsQuery(FeedLimit)
          [] kind = "feedVideos" -> feedVideosQuery(FeedLimit)
          [] kind = "allPosts" -> OrderByCreatedAtDescAll(posts)
          [] kind = "savedPosts" ->
               {[i \in DOMAIN savedPosts |->
                   CHOOSE p \in posts : p.id = savedPosts[i].postId] :
                  savedPosts \in OrderByCreatedAtDescAll(savedPostsQuery(userId))}
  IN  {[i \in DOMAIN rows |-> [row |-> rows[i], user |-> UserOf(rows[i].userId)]] :
         rows \in ordered}

\* the number of store round-trips the callback of a row awaits
Lookups(kind) ==
  CASE kind = "feedPosts" -> 4
    [] kind = "feedVideos" -> 4
    [] kind = "allPosts" -> 2
    [] kind = "savedPosts" -> 3

\* the result of the n-th round-trip of the callback of a row, on the store as it is
Lookup(kind, row, userId, n) ==
  IF kind = "feedVideos"
  THEN CASE n = 1 -> VideoLikesCount(row.id)
         [] n = 2 -> VideoCommentsCount(row.id)
         [] n = 3 -> \E r \in likes : r.videoId = row.id /\ r.userId = userId
         [] n = 4 -> \E r \in saves : r.videoId = row.id /\ r.userId = userId
  ELSE CASE n = 1 -> PostLikesCount(row.id)
         [] n = 2 -> PostCommentsCount(row.id)
         [] n = 3 -> IF kind = "savedPosts" THEN isLikedPost(userId, row.id)
                     ELSE \E r \in likes : r.postId = row.id /\ r.userId = userId
         [] n = 4 -> \E r \in saves : r.postId = row.id /\ r.userId = userId

\* what the callback of a row returns once its round-trips are done
EnrichedItem(kind, joined, looked) ==
  LET base == [id |-> joined.row.id, userId |-> joined.row.userId,
               createdAt |-> joined.row.createdAt, location |-> NULL,
               likesCount |-> looked[1], commentsCount |-> looked[2]]
  IN  CASE kind \in {"feedPosts", "feedVideos"} ->
             [id |-> base.id, userId |-> base.userId, createdAt |-> base.createdAt,
              user |-> joined.user[1], location |-> base.location,
              likesCount |-> base.likesCount, commentsCount |-> base.commentsCount,
              isLiked |-> looked[3], isSaved |-> looked[4]]
        [] kind = "allPosts" ->
             [id |-> base.id, userId |-> base.userId, createdAt |-> base.createdAt,
              user |-> joined.user[1], location |-> base.location,
              likesCount |-> base.likesCount, commentsCount |-> base.commentsCount,
              isLiked |-> FALSE]
        [] kind = "savedPosts" ->
             [id |-> base.id, userId |-> base.userId, createdAt |-> base.createdAt,
              user |-> joined.user, location |-> base.location,
              likesCount |-> base.likesCount, commentsCount |-> base.commentsCount,
              isLiked |-> looked[3]]

\* Promise.all that lists the results in the order the callbacks completed
PromiseAllByCompletion(req) ==
  [k \in DOMAIN req.order |->
     EnrichedItem(req.kind, req.rows[req.order[k]], req.looked[req.order[k]])]

\* Promise.all: the results by the position of their row, whatever the order in which
\* the callbacks completed (req.order)
PromiseAll(req) ==
  [i \in DOMAIN req.rows |-> EnrichedItem(req.kind, req.rows[i], req.looked[i])]

\* the base query and the synchronous start of the callbacks; the callback of a row
\* without a user throws before its first round-trip (not in getSavedPosts) and the
\* read fails at once. One read is in flight at a time: reads change nothing that
\* another read looks up.
EnrichStart(c, kind) ==
  /\ isAuthenticated(c)
  /\ kind = "allPosts" => isAdmin(c.email)
  /\ BagCardinality(inflight) < MaxInFlight
  /\ \A r \in BagToSet(inflight) : r.kind \notin EnrichKinds
  /\ \E rows \in baseQuery(kind, c.sub) :
       IF kind # "savedPosts" /\ \E i \in DOMAIN rows : rows[i].user = <<>>
       THEN /\ resp' = Thrown(EnrichRouteOf(kind), c.sub, 500,
                              Message(EnrichFailureOf(kind)), "Post has no user")
            /\ UNCHANGED inflight
       ELSE /\ inflight' = inflight (+) SetToBag({[kind |-> kind, caller |-> c.sub,
                                                   rows |-> rows,
                                                   looked |-> [i \in DOMAIN rows |-> <<>>],
                                                   order |-> <<>>]})
            /\ UNCHANGED resp
  /\ UNCHANGED <<adminEnv, sessions, tables, nextId>>

\* the next round-trip of the callback of row i
EnrichLookup(req, i) ==
  /\ req \in BagToSet(inflight)
  /\ req.kind \in EnrichKinds
  /\ i \in DOMAIN req.rows
  /\ Len(req.looked[i]) < Lookups(req.kind)
  /\ LET n == Len(req.looked[i]) + 1
         result == Lookup(req.kind, req.rows[i].row, req.caller, n)
         next == [req EXCEPT !.looked[i] = Append(@, result),
                             !.order = IF n = Lookups(req.kind) THEN Append(@, i) ELSE @]
     IN  inflight' = (inflight (-) SetToBag({req})) (+) SetToBag({next})
  /\ UNCHANGED <<adminEnv, sessions, tables, nextId, resp>>

\* every callback has completed: the read returns and the route answers
EnrichReturn(req) ==
  /\ req \in BagToSet(inflight)
  /\ req.kind \in EnrichKinds
  /\ Len(req.order) = Len(req.rows)
  /\ inflight' = inflight (-) SetToBag({req})
  /\ resp' = Response(EnrichRouteOf(req.kind), req.caller, NULL, 200, PromiseAll(req), req)
  /\ UNCHANGED <<adminEnv, sessions, tables, nextId>>

\* ------------------------------------------------------------ upsertUser calls
\* what the identity provider may pass to upsertUser: an id, an email that is not
\* empty, and a first name or none
UpsertInputs ==
  [sub : {"u1", "u2", "u3"}, email : {<<"a">>, <<"B">>},
   firstName : {<<>>, << <<"A", "l">> >>, << <<"B", "o">> >>}]

\* one call of storage.upsertUser, the calls running one after another
UpsertUserCall(userData) ==
  /\ users' = upsertUser(userData)
  /\ resp' = Response("storage.upsertUser", userData.sub, userData, 200, <<>>,
                      upsertUser(userData) \ users)
  /\ UNCHANGED <<adminEnv, sessions, posts, videos, locations, likes, comments, follows,
                 saves, nextId, inflight>>

\* ------------------------------------------------------------- isAdmin calls
\* one call of isAdmin
IsAdminCall(email) ==
  /\ resp' = Response("isAdmin", "", email, 0, isAdmin(email), <<>>)
  /\ UNCHANGED <<adminEnv, sessions, users, posts, videos, locations, likes, comments,
                 follows, saves, nextId, inflight>>

\* ============================================================ specifications
CreatePost == \E c \in Identities : CreatePostRoute(c)
DeletePost == \E c \in Identities, p \in PostTargets : DeletePostRoute(c, p)
GetPost == \E c \in Identities, p \in PostTargets : GetPostRoute(c, p)
GetFeedPosts == \E c \in Identities : GetFeedPostsRoute(c)
LikePost == \E c \in Identities, p \in PostTargets : LikePostRoute(c, p)
UnlikePost == \E c \in Identities, p \in PostTargets : UnlikePostRoute(c, p)
UnlikeVideo == \E c \in Identities, v \in VideoTargets : UnlikeVideoRoute(c, v)
SavePost == \E c \in Identities, p \in PostTargets : SavePostRoute(c, p)
UnsavePost == \E c \in Identities, p \in PostTargets : UnsavePostRoute(c, p)
CreateComment == \E c \in Identities, body \in CommentBodies : CreateCommentRoute(c, body)
DeleteComment == \E c \in Identities, k \in CommentTargets : DeleteCommentRoute(c, k)
CreateVideo == \E c \in Identities, body \in VideoBodies : CreateVideoRoute(c, body)
DeleteVideo == \E c \in Identities, v \in VideoTargets : DeleteVideoRoute(c, v)
CreateLocation == \E c \in Identities, body \in LocationBodies : CreateLocationRoute(c, body)
DeleteLocation == \E c \in Identities, l \in LocationTargets : DeleteLocationRoute(c, l)
LikePostSelect == \E c \in Identities, p \in PostTargets : LikeSelect(c, "post", p)
LikeVideoSelect == \E c \in Identities, v \in VideoTargets : LikeSelect(c, "video", v)
LikePostFinish == \E req \in BagToSet(inflight) : req.kind = "post" /\ LikeFinish(req)
LikeVideoFinish == \E req \in BagToSet(inflight) : req.kind = "video" /\ LikeFinish(req)
Follow == \E c \in Identities, u \in Subs : FollowRoute(c, u)
Unfollow == \E c \in Identities, u \in Subs : UnfollowRoute(c, u)
GetProfile == \E c \in Identities, u \in Subs \cup {""} : GetProfileRoute(c, u)
GetUserProfile == \E u \in Subs, v \in Subs \cup {""} : GetUserProfileCall(u, v)
GetFeedVideos == \E c \in Identities : GetFeedVideosRoute(c)
GetFeedPostsCall == \E c \in Identities, limit \in FeedLimits : GetFeedCall(c, "posts", limit)
GetFeedVideosCall == \E c \in Identities, limit \in FeedLimits : GetFeedCall(c, "videos", limit)
SaveVideo == \E c \in Identities, v \in VideoTargets : SaveVideoRoute(c, v)
GetSavedPosts == \E c \in Identities : GetSavedPostsRoute(c)
GetSavedVideos == \E c \in Identities : GetSavedVideosRoute(c)
StoreFailure ==
  \E c \in Identities, catch \in CatchBlocks, error \in StoreErrors : StoreThrows(c, catch, error)
GetLocations == \E c \in Identities : GetLocationsRoute(c)
Anonymous == \E route \in RegisteredRoutes : AnonymousRequest(route)
LoginProfile == \E c \in ProfileIdentities : Login(c)
PutProfile == \E c \in ProfileIdentities, body \in ProfileBodies : PutProfileRoute(c, body)
AdminPosts == \E c \in Identities : AdminListRoute(c, "posts")
AdminVideos == \E c \in Identities : AdminListRoute(c, "videos")
AdminLocations == \E c \in Identities : AdminListRoute(c, "locations")
AdminComments == \E c \in Identities : AdminListRoute(c, "comments")

\* posts and what users do with them, every request running alone
Next ==
  \/ LoginAny
  \/ CreatePost \/ GetPost \/ GetFeedPosts
  \/ LikePost \/ UnlikePost \/ SavePost \/ UnsavePost
  \/ CreateComment

Spec == InitNoAdmins /\ [][Next]_vars

\* like requests whose two round-trips interleave with other requests
NextRace ==
  \/ LoginAny
  \/ CreatePost \/ CreateVideo
  \/ LikePostSelect \/ LikePostFinish \/ UnlikePost
  \/ LikeVideoSelect \/ LikeVideoFinish \/ UnlikeVideo

SpecRace == InitNoAdmins /\ [][NextRace]_vars

\* the social graph
NextFollow == LoginAny \/ Follow \/ Unfollow \/ GetProfile \/ GetUserProfile

SpecFollow == InitNoAdmins /\ [][NextFollow]_vars

\* creating and deleting content under an admin allow-list; creation stops at
\* MaxContent rows
ContentFits == Inserted < MaxContent

NextDelete ==
  \/ LoginAny
  \/ (ContentFits /\ CreatePost) \/ DeletePost
  \/ (ContentFits /\ CreateVideo) \/ DeleteVideo
  \/ (ContentFits /\ CreateLocation) \/ DeleteLocation
  \/ (ContentFits /\ CreateComment) \/ DeleteComment

SpecDelete == InitAdmins /\ [][NextDelete]_vars

\* the moderation listings, with and without an admin allow-list
NextAdmin ==
  \/ LoginAny
  \/ (ContentFits /\ CreatePost) \/ AdminPosts
  \/ (ContentFits /\ CreateVideo) \/ AdminVideos
  \/ (ContentFits /\ CreateLocation) \/ AdminLocations
  \/ (ContentFits /\ CreateComment) \/ AdminComments

SpecAdmin == Init /\ [][NextAdmin]_vars

\* relations made and removed again: likes, saves, follows
NextUndo ==
  \/ LoginAny
  \/ CreatePost
  \/ LikePost \/ UnlikePost
  \/ SavePost \/ UnsavePost
  \/ Follow \/ Unfollow

SpecUndo == InitNoAdmins /\ [][NextUndo]_vars

\* saved posts and videos, some of them deleted after they were saved
NextSaved ==
  \/ LoginAny
  \/ CreatePost \/ SavePost \/ DeletePost \/ GetSavedPosts
  \/ CreateVideo \/ SaveVideo \/ DeleteVideo \/ GetSavedVideos

SpecSaved == InitNoAdmins /\ [][NextSaved]_vars

\* requests whose store call may throw, beside creations that pass or fail validation
NextFail ==
  \/ LoginAny
  \/ (ContentFits /\ CreatePost)
  \/ (ContentFits /\ CreateComment)
  \/ StoreFailure

SpecFail == InitAdmins /\ [][NextFail]_vars

\* requests with and without a session
NextAnon ==
  \/ LoginAny
  \/ (ContentFits /\ CreatePost)
  \/ (ContentFits /\ CreateLocation) \/ GetLocations
  \/ Anonymous

SpecAnon == InitNoAdmins /\ [][NextAnon]_vars

\* profile updates of two identities of one email address
NextProfile == LoginProfile \/ PutProfile

SpecProfile == InitNoAdmins /\ [][NextProfile]_vars

\* content of callers with and without a user row, and every read that joins the
\* owning user to the rows it returns
NextOrphan ==
  \/ \E c \in AllIdentities : Login(c)
  \/ \E c \in AllIdentities : ContentFits /\ CreatePostRoute(c)
  \/ \E c \in AllIdentities, body \in VideoBodies : ContentFits /\ CreateVideoRoute(c, body)
  \/ \E c \in AllIdentities, body \in LocationBodies :
       ContentFits /\ CreateLocationRoute(c, body)
  \/ \E c \in AllIdentities, body \in CommentBodies :
       ContentFits /\ CreateCommentRoute(c, body)
  \/ \E c \in AllIdentities, p \in PostTargets : ContentFits /\ SavePostRoute(c, p)
  \/ \E c \in AllIdentities, v \in VideoTargets : ContentFits /\ SaveVideoRoute(c, v)
  \/ \E c \in AllIdentities : GetFeedPostsRoute(c)
  \/ \E c \in AllIdentities : GetFeedVideosRoute(c)
  \/ \E c \in AllIdentities, kind \in AdminKinds : AdminListRoute(c, kind)
  \/ \E c \in AllIdentities : GetLocationsRoute(c)
  \/ \E c \in AllIdentities : GetSavedPostsRoute(c)
  \/ \E c \in AllIdentities : GetSavedVideosRoute(c)
  \/ \E c \in AllIdentities, p \in PostTargets : GetPostCommentsRoute(c, p)
  \/ \E c \in AllIdentities, v \in VideoTargets : GetVideoCommentsRoute(c, v)

SpecOrphan == InitAdmins /\ [][NextOrphan]_vars

\* single posts and videos of callers with and without a user row, some deleted
NextDetails ==
  \/ \E c \in ProfileIdentities : Login(c)
  \/ \E c \in ProfileIdentities : ContentFits /\ CreatePostRoute(c)
  \/ \E c \in ProfileIdentities, p \in PostTargets : ContentFits /\ LikePostRoute(c, p)
  \/ \E c \in ProfileIdentities, p \in PostTargets : DeletePostRoute(c, p)
  \/ \E c \in ProfileIdentities, p \in PostTargets : GetPostRoute(c, p)
  \/ \E c \in ProfileIdentities, body \in VideoBodies :
       ContentFits /\ CreateVideoRoute(c, body)
  \/ \E c \in ProfileIdentities, v \in VideoTargets : DeleteVideoRoute(c, v)
  \/ \E c \in ProfileIdentities, v \in VideoTargets : GetVideoRoute(c, v)

SpecDetails == InitNoAdmins /\ [][NextDetails]_vars

\* the feed of posts beside the social graph and the likes, saves and comments
NextGraph ==
  \/ LoginAny
  \/ (ContentFits /\ CreatePost)
  \/ (ContentFits /\ LikePost)
  \/ (ContentFits /\ SavePost)
  \/ (ContentFits /\ CreateComment)
  \/ (ContentFits /\ Follow)
  \/ Unfollow
  \/ GetFeedPosts

SpecGraph == InitNoAdmins /\ [][NextGraph]_vars

\* reads whose per-row lookups complete in any order, on a store that is written
\* only while no read is in flight
Idle == inflight = EmptyBag

\* the one caller who creates the posts and videos that are listed
Author == CHOOSE c \in Identities : c.sub = "u1"

ListedFits == nextId.posts + nextId.videos - 2 < MaxListed

NextEnrich ==
  \/ LoginAny
  \/ (Idle /\ ListedFits /\ ContentFits /\ CreatePostRoute(Author))
  \/ \E body \in VideoBodies :
       Idle /\ ListedFits /\ ContentFits /\ CreateVideoRoute(Author, body)
  \/ (Idle /\ ContentFits /\ LikePost)
  \/ (Idle /\ ContentFits /\ SavePost)
  \/ (Idle /\ ContentFits /\ CreateComment)
  \/ \E c \in Identities : EnrichStart(c, "feedPosts")
  \/ \E c \in Identities : EnrichStart(c, "feedVideos")
  \/ \E c \in Identities : EnrichStart(c, "allPosts")
  \/ \E c \in Identities : EnrichStart(c, "savedPosts")
  \/ \E req \in BagToSet(inflight), i \in 1..MaxListed : EnrichLookup(req, i)
  \/ \E req \in BagToSet(inflight) : EnrichReturn(req)

SpecEnrich == InitAdmins /\ [][NextEnrich]_vars

\* posts and videos that are liked, saved and commented on, and then deleted by
\* their owner or by an admin
NextCascade ==
  \/ LoginAny
  \/ (ContentFits /\ CreatePost)
  \/ (ContentFits /\ CreateVideo)
  \/ (ContentFits /\ LikePost)
  \/ (ContentFits /\ SavePost)
  \/ (ContentFits /\ SaveVideo)
  \/ (ContentFits /\ CreateComment)
  \/ DeletePost
  \/ DeleteVideo

SpecCascade == InitAdmins /\ [][NextCascade]_vars

\* feeds that go lookup by lookup while like and unlike requests of the viewers run
NextFeedRace ==
  \/ LoginAny
  \/ (Idle /\ ListedFits /\ ContentFits /\ CreatePostRoute(Author))
  \/ \E body \in VideoBodies :
       Idle /\ ListedFits /\ ContentFits /\ CreateVideoRoute(Author, body)
  \/ (ContentFits /\ LikePostSelect) \/ LikePostFinish \/ UnlikePost
  \/ (ContentFits /\ LikeVideoSelect) \/ LikeVideoFinish \/ UnlikeVideo
  \/ \E c \in Identities : EnrichStart(c, "feedPosts")
  \/ \E c \in Identities : EnrichStart(c, "feedVideos")
  \/ \E req \in BagToSet(inflight), i \in 1..MaxListed : EnrichLookup(req, i)
  \/ \E req \in BagToSet(inflight) : EnrichReturn(req)

SpecFeedRace == InitNoAdmins /\ [][NextFeedRace]_vars

\* upsertUser called for ids that change their email and emails that change their id
NextUpsert == \E userData \in UpsertInputs : UpsertUserCall(userData)

SpecUpsert == InitNoAdmins /\ [][NextUpsert]_vars

\* isAdmin applied to emails under every allow-list
InitAllowLists ==
  /\ adminEnv \in AllowLists
  /\ sessions = {}
  /\ users = {} /\ posts = {} /\ videos = {} /\ locations = {}
  /\ likes = {} /\ comments = {} /\ follows = {} /\ saves = {}
  /\ nextId = [t \in IdTables |-> 1]
  /\ inflight = EmptyBag
  /\ resp = NoResponse

NextIsAdmin == \E email \in Emails : IsAdminCall(email)

SpecIsAdmin == InitAllowLists /\ [][NextIsAdmin]_vars

\* the two feeds, through their routes and with limits below the number of rows
NextFeed ==
  \/ LoginAny
  \/ CreatePost \/ GetFeedPosts \/ GetFeedPostsCall
  \/ CreateVideo \/ GetFeedVideos \/ GetFeedVideosCall

SpecFeed == InitNoAdmins /\ [][NextFeed]_vars

\* ==================================================================== claims
\* what the properties below read off the tables and the last response
LikeRowsOfPost(u, p) == {r \in likes : r.userId = u /\ r.postId = p}
LikeRowsOfVideo(u, v) == {r \in likes : r.userId = u /\ r.videoId = v}
SaveRowsOfPost(u, p) == {r \in saves : r.userId = u /\ r.postId = p}
FollowRowsOf(a, b) == {r \in follows : r.followerId = a /\ r.followingId = b}

IsResponse(r, route, caller, target) ==
  r.route = route /\ r.caller = caller /\ r.target = target

\* the callers the allow-list " b,c" names: u2, whose email is "B"
AllowListed(sub) == adminEnv # <<>> /\ sub = "u2"

ContentKinds == {"posts", "videos", "locations", "comments"}

ContentTable(kind) ==
  CASE kind = "posts" -> posts
    [] kind = "videos" -> videos
    [] kind = "locations" -> locations
    [] kind = "comments" -> comments

DeleteRouteOf(kind) ==
  CASE kind = "posts" -> "DELETE /api/posts/:postId"
    [] kind = "videos" -> "DELETE /api/videos/:videoId"
    [] kind = "locations" -> "DELETE /api/locations/:locationId"
    [] kind = "comments" -> "DELETE /api/comments/:commentId"

\* C1: when requests run one after another, a like request for (u, p) answers 200
\* with a row (u, p) that is then the only such row, and a like request made while
\* a row (u, p) exists returns that row and inserts nothing.
C1_LikeTwiceOneRow ==
  /\ [](\A u \in Subs, p \in PostTargets :
          IsResponse(resp, "POST /api/likes/post/:postId", u, p) =>
            resp.status = 200 /\ LikeRowsOfPost(u, p) = {resp.body})
  /\ [][\A u \in Subs, p \in PostTargets :
          (IsResponse(resp', "POST /api/likes/post/:postId", u, p)
             /\ LikeRowsOfPost(u, p) # {}) =>
            likes' = likes /\ resp'.body \in LikeRowsOfPost(u, p)]_vars

\* a like request that found the row of an earlier one and returned it
C1_Witness ==
  \E u \in Subs, p \in PostTargets :
    /\ IsResponse(resp, "POST /api/likes/post/:postId", u, p)
    /\ resp.status = 200
    /\ resp.store = <<resp.body>>
    /\ LikeRowsOfPost(u, p) = {resp.body}

\* C2: there is at most one Like row per (user, post) and per (user, video), also
\* when the round-trips of like requests interleave.
C2_AtMostOneLikePerTarget ==
  \A u \in Subs :
    /\ \A p \in PostTargets : Cardinality(LikeRowsOfPost(u, p)) <= 1
    /\ \A v \in VideoTargets : Cardinality(LikeRowsOfVideo(u, v)) <= 1

\* C3: there is at most one Follow row per (follower, followee).
C3_AtMostOneFollowPerPair ==
  \A a \in Subs, b \in Subs : Cardinality(FollowRowsOf(a, b)) <= 1

\* C4: a follow request of a user for themselves is answered 400 and leaves the
\* follows table as it was, and no Follow row has followerId = followingId.
C4_SelfFollowRejected ==
  /\ [](\A r \in follows : r.followerId # r.followingId)
  /\ [](\A u \in Subs :
          IsResponse(resp, "POST /api/follows/:userId", u, u) => resp.status = 400)
  /\ [][\A u \in Subs :
          IsResponse(resp', "POST /api/follows/:userId", u, u) => follows' = follows]_vars

\* a self-follow request was answered 400 while follow rows of others exist
C4_Witness ==
  \E u \in Subs :
    /\ IsResponse(resp, "POST /api/follows/:userId", u, u)
    /\ resp.status = 400
    /\ follows # {}

\* C5: every Like, Comment and Save row has exactly one of postId and videoId set.
C5_ExactlyOneTarget ==
  /\ \A r \in likes : (r.postId = NULL) # (r.videoId = NULL)
  /\ \A r \in comments : (r.postId = NULL) # (r.videoId = NULL)
  /\ \A r \in saves : (r.postId = NULL) # (r.videoId = NULL)

\* C6: the single-post view reports isLiked and isSaved as the feed item of the same
\* post and viewer does, so both are true for a viewer who liked and saved the post.
C6_DetailsFlagsAsFeed ==
  \A v \in Subs, p \in PostTargets :
    (IsResponse(resp, "GET /api/posts/:postId", v, p) /\ resp.status = 200) =>
      /\ "isSaved" \in DOMAIN resp.body
      /\ \A post \in {r \in posts : r.id = p} :
           /\ resp.body.isLiked = FeedPostItem(post, v).isLiked
           /\ resp.body.isSaved = FeedPostItem(post, v).isSaved
      /\ (LikeRowsOfPost(v, p) # {} /\ SaveRowsOfPost(v, p) # {}) =>
           resp.body.isLiked = TRUE /\ resp.body.isSaved = TRUE

\* C7: the single-post view reports the number of Like rows of the post, the number
\* of Comment rows of the post, and isLiked exactly when the viewer has a Like row.
C7_DetailsCounts ==
  \A v \in Subs, p \in PostTargets :
    (IsResponse(resp, "GET /api/posts/:postId", v, p) /\ resp.status = 200) =>
      /\ resp.body.likesCount = Cardinality({r \in likes : r.postId = p})
      /\ resp.body.commentsCount = Cardinality({r \in comments : r.postId = p})
      /\ resp.body.isLiked = (LikeRowsOfPost(v, p) # {})

\* A created P; B liked, saved and commented on P once each; A views P
C7_Scenario ==
  \E a \in Subs, b \in Subs, p \in PostTargets :
    /\ a # b
    /\ IsResponse(resp, "GET /api/posts/:postId", a, p)
    /\ resp.status = 200
    /\ resp.body.userId = a
    /\ Cardinality(LikeRowsOfPost(b, p)) = 1
    /\ Cardinality(SaveRowsOfPost(b, p)) = 1
    /\ Cardinality({r \in comments : r.postId = p /\ r.userId = b}) = 1
    /\ resp.body.likesCount = 1
    /\ resp.body.commentsCount = 1
    /\ resp.body.isLiked = FALSE

\* C8: a row of posts, videos, locations or comments is removed only by a delete
\* request of its owner or of an admin for that row, and a delete request of anyone
\* else for an existing row is answered 404 and leaves the row in place.
C8_OnlyOwnerOrAdminDeletes ==
  [][\A kind \in ContentKinds :
       /\ \A r \in ContentTable(kind) \ ContentTable(kind)' :
            /\ IsResponse(resp', DeleteRouteOf(kind), resp'.caller, r.id)
            /\ resp'.status = 200
            /\ resp'.caller = r.userId \/ AllowListed(resp'.caller)
       /\ \A r \in ContentTable(kind) :
            (IsResponse(resp', DeleteRouteOf(kind), resp'.caller, r.id)
               /\ resp'.caller # r.userId /\ ~AllowListed(resp'.caller)) =>
              resp'.status = 404 /\ resp'.store = {} /\ r \in ContentTable(kind)']_vars

\* someone who is neither owner nor admin asked to delete a post and it is still there
C8_Witness ==
  \E r \in posts :
    /\ IsResponse(resp, "DELETE /api/posts/:postId", resp.caller, r.id)
    /\ resp.caller # r.userId
    /\ ~AllowListed(resp.caller)
    /\ resp.status = 404
    /\ resp.store = {}

\* C9: a delete request for an existing post by its owner (deletePost) or by an admin
\* (deletePostAdmin) returns the row, removes exactly it and answers 200; a delete
\* request for a post that is no longer there returns no row, answers 404 without
\* an error and changes no table.
C9_DeletePostTwice ==
  [][\A c \in Subs, p \in PostTargets :
       (IsResponse(resp', "DELETE /api/posts/:postId", c, p) /\ resp' # resp) =>
         IF \E r \in posts : r.id = p /\ (r.userId = c \/ AllowListed(c))
         THEN /\ resp'.status = 200
              /\ resp'.store = {r \in posts : r.id = p}
              /\ posts' = posts \ resp'.store
         ELSE /\ resp'.status = 404
              /\ resp'.store = {}
              /\ tables' = tables]_vars

\* a delete request for a post that had been deleted answered 404
C9_Witness ==
  \E p \in PostTargets :
    /\ IsResponse(resp, "DELETE /api/posts/:postId", resp.caller, p)
    /\ resp.status = 404
    /\ resp.store = {}
    /\ \A r \in posts : r.id # p

\* C10: a delete request of an allow-listed caller for an existing post, video,
\* location or comment answers 200 and removes the row, whoever owns it.
C10_AdminDeletesAny ==
  [][\A kind \in ContentKinds :
       \A r \in ContentTable(kind) :
         (IsResponse(resp', DeleteRouteOf(kind), resp'.caller, r.id)
            /\ AllowListed(resp'.caller)) =>
           /\ resp'.status = 200
           /\ ContentTable(kind)' = ContentTable(kind) \ {r}]_vars

\* an admin deleted a row that someone else owned
C10_Witness ==
  \E kind \in ContentKinds :
    /\ resp.route = DeleteRouteOf(kind)
    /\ resp.status = 200
    /\ AllowListed(resp.caller)
    /\ \E r \in resp.store : r.userId # resp.caller
\* C11: an admin listing request of a caller who is not on the allow-list is answered
\* 403 with the fixed message and without a call to the store, and the request
\* changes no table.
C11_AdminListingForbidden ==
  /\ [](\A kind \in AdminKinds :
          (resp.route = AdminRouteOf(kind) /\ ~AllowListed(resp.caller)) =>
            /\ resp.status = 403
            /\ resp.store = <<>>
            /\ resp.body = Message("Forbidden - Admin access required"))
  /\ [][\A kind \in AdminKinds :
          (resp'.route = AdminRouteOf(kind) /\ resp' # resp) => tables' = tables]_vars

\* a caller who is not an admin asked for a listing of a table that has rows, under
\* an allow-list that names someone else
C11_Witness ==
  \E kind \in AdminKinds :
    /\ resp.route = AdminRouteOf(kind)
    /\ adminEnv # <<>>
    /\ ~AllowListed(resp.caller)
    /\ ContentTable(kind) # {}
    /\ resp.status = 403
    /\ resp.store = <<>>
FeedKinds == {"posts", "videos"}

FeedTable(kind) == IF kind = "posts" THEN posts ELSE videos

\* C12: a list returned by getFeedPosts / getFeedVideos for a limit has at most limit
\* items, in non-increasing order of createdAt, each the feed item of a row of the
\* table, and no row of the table that is left out is strictly newer than a
\* returned one.
C12_FeedNewestFirst ==
  \A kind \in FeedKinds :
    (resp.route = FeedCall(kind) /\ resp.status = 200) =>
      LET items == resp.body
          limit == resp.target
      IN  /\ Len(items) <= limit
          /\ \A i, j \in DOMAIN items :
               i < j => items[i].createdAt >= items[j].createdAt /\ items[i].id # items[j].id
          /\ \A i \in DOMAIN items :
               \E r \in FeedTable(kind) : r.id = items[i].id /\ r.createdAt = items[i].createdAt
          /\ \A r \in FeedTable(kind) :
               (\A i \in DOMAIN items : items[i].id # r.id) =>
                 \A i \in DOMAIN items : r.createdAt <= items[i].createdAt

\* a feed of two items was cut out of a table of more rows
C12_Witness ==
  \E kind \in FeedKinds :
    /\ resp.route = FeedCall(kind)
    /\ resp.status = 200
    /\ resp.target = 2
    /\ Len(resp.body) = 2
    /\ Cardinality(FeedTable(kind)) > 2
\* C13: an unlike request for (u, p) made while no Like row (u, p) exists gets no row
\* back from the store (unlikePost returns false), leaves every table as it was and
\* is answered 200 {success: true}.
C13_UnlikeNothingSucceeds ==
  [][\A u \in Subs, p \in PostTargets :
       (IsResponse(resp', "DELETE /api/likes/post/:postId", u, p)
          /\ resp' # resp /\ LikeRowsOfPost(u, p) = {}) =>
         /\ resp'.store = {}
         /\ tables' = tables
         /\ resp'.status = 200
         /\ resp'.body = Success]_vars

\* an unlike request that found nothing to remove, while other Like rows exist
C13_Witness ==
  \E u \in Subs, p \in PostTargets :
    /\ IsResponse(resp, "DELETE /api/likes/post/:postId", u, p)
    /\ resp.store = {}
    /\ resp.status = 200
    /\ LikeRowsOfPost(u, p) = {}
    /\ likes # {}
UndoRoutes ==
  {"DELETE /api/likes/post/:postId", "DELETE /api/saves/post/:postId",
   "DELETE /api/follows/:userId"}

\* C14: an unlike, unsave or unfollow request that finds no relation to remove is
\* answered as a success, 200 {success: true}.
C14_UndoNothingSucceeds ==
  (resp.route \in UndoRoutes /\ resp.store = {}) =>
    resp.status = 200 /\ resp.body = Success
\* C15: GET /api/saves/posts (getSavedPosts) of user u answers 200 with a list whose
\* items are exactly the existing posts for which u has a Save row: the empty list
\* when u has none, and no item and no error for a Save whose post was deleted.
\* GET /api/saves/videos (getSavedVideos) does the same for videos.
C15_SavedListsExistingTargets ==
  /\ resp.route = "GET /api/saves/posts" =>
       /\ resp.status = 200
       /\ {resp.body[i].id : i \in DOMAIN resp.body} =
            {p.id : p \in {q \in posts : \E s \in saves :
                                           s.userId = resp.caller /\ s.postId = q.id}}
       /\ (\A s \in saves : s.userId # resp.caller) => resp.body = <<>>
  /\ resp.route = "GET /api/saves/videos" =>
       /\ resp.status = 200
       /\ {resp.body[i].id : i \in DOMAIN resp.body} =
            {v.id : v \in {q \in videos : \E s \in saves :
                                            s.userId = resp.caller /\ s.videoId = q.id}}
       /\ (\A s \in saves : s.userId # resp.caller) => resp.body = <<>>

\* the list of a user who saved a post that is gone and a post that is still there
C15_Witness ==
  /\ resp.route = "GET /api/saves/posts"
  /\ resp.status = 200
  /\ Len(resp.body) = 1
  /\ \E s \in saves :
       s.userId = resp.caller /\ s.postId # NULL /\ \A p \in posts : p.id # s.postId
ProfileRoutes == {"GET /api/users/profile/:userId?", "storage.getUserProfile"}

\* the user a profile response is about: the route falls back to the caller
ProfileSubject(r) == IF r.target = "" THEN r.caller ELSE r.target

\* C16: a profile read (through the route, or getUserProfile called with or without
\* a viewer) is not-found when no user row has the id asked for; otherwise it
\* returns the profile of that user with isFollowing true exactly when a viewer is
\* given, is not the user and has a Follow row to the user.
C16_ProfileIsFollowing ==
  [][(resp'.route \in ProfileRoutes /\ resp' # resp) =>
       LET userId == ProfileSubject(resp')
           viewerId == resp'.caller
       IN  IF \A u \in users : u.id # userId
           THEN resp'.status = 404 /\ resp'.store = <<>>
           ELSE /\ resp'.status = 200
                /\ resp'.body.id = userId
                /\ resp'.body.isFollowing =
                     (viewerId # "" /\ viewerId # userId /\ FollowRowsOf(viewerId, userId) # {})
                /\ viewerId = userId => resp'.body.isFollowing = FALSE]_vars

\* a viewer read the profile of a user they follow and who does not follow them
C16_Witness ==
  /\ resp.route \in ProfileRoutes
  /\ resp.status = 200
  /\ resp.caller # ProfileSubject(resp)
  /\ resp.body.isFollowing = TRUE
  /\ FollowRowsOf(ProfileSubject(resp), resp.caller) = {}
\* C17: a request whose store call throws is answered 500 with the fixed message of
\* its route, and the message of the thrown error is not in the response body.
C17_FailureIsGeneric500 ==
  resp.error # <<>> =>
    /\ resp.status = 500
    /\ \E catch \in CatchBlocks : catch.route = resp.route /\ resp.body = Message(catch.message)
    /\ resp.error[1] # "" => resp.body.message # resp.error[1]
PublicRoutes == {"GET /public-objects/:objectPath(*)", "POST /api/route"}

\* C18: a request without a session changes no table and calls no storage method,
\* and it is answered 401 by the authentication check on every registered route
\* but the public-object download and the route proxy.
C18_NoSessionNoTableAccess ==
  /\ [](\A route \in RegisteredRoutes :
          (resp.route = route /\ resp.caller = "") =>
            /\ resp.store = <<>>
            /\ route \notin PublicRoutes => resp.status = 401)
  /\ [][(resp'.route \in RegisteredRoutes /\ resp'.caller = "" /\ resp' # resp) =>
          tables' = tables]_vars

\* the listing of all locations was asked for without a session while locations
\* exist, and was answered 401
C18_Witness ==
  /\ resp.route = "GET /api/locations"
  /\ resp.caller = ""
  /\ resp.status = 401
  /\ locations # {}
DeleteRefusalOf(kind) ==
  CASE kind = "posts" -> Message("Post not found or unauthorized")
    [] kind = "videos" -> Message("Video not found or unauthorized")
    [] kind = "locations" -> Message("Location not found or unauthorized")
    [] kind = "comments" -> Message("Comment not found or unauthorized")

\* C19: the answer to a delete request of a caller who is not an admin, for an id of
\* which the caller owns no row, is 404 with the one message of the route, whether a
\* row of that id exists (owned by someone else) or not; the request removes nothing.
C19_RefusalHidesExistence ==
  [][\A kind \in ContentKinds :
       (resp'.route = DeleteRouteOf(kind) /\ resp' # resp /\ ~AllowListed(resp'.caller)
          /\ \A r \in ContentTable(kind) :
               r.id = resp'.target => r.userId # resp'.caller) =>
         /\ resp'.status = 404
         /\ resp'.body = DeleteRefusalOf(kind)
         /\ resp'.store = {}
         /\ tables' = tables]_vars

\* a refusal for a row that exists and belongs to someone else, in a table of which
\* another row has been deleted
C19_Witness ==
  \E kind \in ContentKinds :
    /\ resp.route = DeleteRouteOf(kind)
    /\ ~AllowListed(resp.caller)
    /\ resp.status = 404
    /\ resp.body = DeleteRefusalOf(kind)
    /\ \E r \in ContentTable(kind) : r.id = resp.target /\ r.userId # resp.caller
    /\ \E id \in 1..(nextId[kind] - 1) : \A r \in ContentTable(kind) : r.id # id
\* what the properties of the profile update read off a request and the users table
ProfileRowOf(rows, sub) == {u \in rows : u.id = sub}

\* a body updateProfileSchema accepts, in terms of the trimmed strings
ValidProfileBody(body) ==
  /\ body.firstName # <<>> /\ Len(trim(body.firstName[1])) \in 1..NameMax
  /\ body.lastName # <<>> /\ Len(trim(body.lastName[1])) \in 1..NameMax
  /\ body.bio # <<>> => Len(trim(body.bio[1])) <= BioMax
  /\ body.profileImageUrl # <<>> =>
       body.profileImageUrl[1] = <<>> \/ isUrl(trim(body.profileImageUrl[1]))

\* the column value a sent string leaves: null when nothing is left of it after
\* trimming, the trimmed string otherwise
Stored(sent) == IF trim(sent) = <<>> THEN <<>> ELSE <<trim(sent)>>

\* C20 as stated: a valid body always writes firstName and lastName; a bio or
\* profileImageUrl sent as "" clears the column, one sent as a non-empty string
\* replaces it with a value, and an omitted one leaves it; an invalid body gets 400
\* and changes no user row.
C20_ProfileUpdateAsStated ==
  [][(resp'.route = "PUT /api/users/profile" /\ resp' # resp) =>
       LET body == resp'.target
       IN  IF ~ValidProfileBody(body)
           THEN resp'.status = 400 /\ users' = users
           ELSE /\ resp'.status = 200
                /\ \E new \in ProfileRowOf(users', resp'.caller) :
                     /\ new.firstName = <<trim(body.firstName[1])>>
                     /\ new.lastName = <<trim(body.lastName[1])>>
                     /\ \A f \in {"bio", "profileImageUrl"} :
                          /\ (body[f] # <<>> /\ body[f][1] = <<>>) => new[f] = <<>>
                          /\ (body[f] # <<>> /\ body[f][1] # <<>>) => new[f] # <<>>
                          /\ body[f] = <<>> =>
                               \A old \in ProfileRowOf(users, resp'.caller) : new[f] = old[f]]_vars

\* C20, amended: an invalid body gets 400 and changes no user row. A valid body of a
\* caller who has a user row is answered 200 and writes the trimmed firstName and
\* lastName to that row and to no other; a bio or profileImageUrl that is sent and
\* empty after trimming clears the column, one that is not empty is stored trimmed,
\* and an omitted one leaves the column. A valid body of a caller who has no user
\* row is answered 500 and changes no row.
C20_ProfileUpdateTrimmed ==
  [][(resp'.route = "PUT /api/users/profile" /\ resp' # resp) =>
       LET body == resp'.target
           rows == ProfileRowOf(users, resp'.caller)
       IN  IF ~ValidProfileBody(body)
           THEN resp'.status = 400 /\ users' = users
           ELSE IF rows = {}
                THEN resp'.status = 500 /\ resp'.body = Message("Failed to update profile")
                     /\ users' = users
                ELSE /\ resp'.status = 200
                     /\ users' \ ProfileRowOf(users', resp'.caller) = users \ rows
                     /\ \A old \in rows :
                          \E new \in ProfileRowOf(users', resp'.caller) :
                            /\ new.id = old.id /\ new.email = old.email
                            /\ new.firstName = <<trim(body.firstName[1])>>
                            /\ new.lastName = <<trim(body.lastName[1])>>
                            /\ \A f \in {"bio", "profileImageUrl"} :
                                 new[f] = IF body[f] = <<>> THEN old[f] ELSE Stored(body[f][1])
                            /\ resp'.body.bio = new.bio
                            /\ resp'.body.firstName = new.firstName]_vars

\* a bio of blanks was answered 200 and left the bio null, in a body that left the
\* image out while an image is stored
C20_Witness ==
  /\ resp.route = "PUT /api/users/profile"
  /\ resp.status = 200
  /\ resp.target.bio = << <<" ">> >>
  /\ resp.target.profileImageUrl = <<>>
  /\ \E u \in users : u.id = resp.caller /\ u.bio = <<>> /\ u.profileImageUrl # <<>>
\* the reads that return rows enriched with their owning user
EnrichedRoutes ==
  {"GET /api/posts/feed", "GET /api/videos/feed", "GET /api/admin/posts",
   "GET /api/admin/videos", "GET /api/admin/locations", "GET /api/admin/comments",
   "GET /api/locations", "GET /api/saves/posts", "GET /api/saves/videos",
   "GET /api/comments/post/:postId", "GET /api/comments/video/:videoId"}

\* the owners of the base rows the read answered by r goes through
OwnersRead(r) ==
  CASE r.route \in {"GET /api/posts/feed", "GET /api/admin/posts"} ->
         {x.userId : x \in posts}
    [] r.route \in {"GET /api/videos/feed", "GET /api/admin/videos"} ->
         {x.userId : x \in videos}
    [] r.route \in {"GET /api/locations", "GET /api/admin/locations"} ->
         {x.userId : x \in locations}
    [] r.route = "GET /api/admin/comments" -> {x.userId : x \in comments}
    [] r.route = "GET /api/saves/posts" ->
         {x.userId : x \in {q \in posts : \E s \in saves :
                                            s.userId = r.caller /\ s.postId = q.id}}
    [] r.route = "GET /api/saves/videos" ->
         {x.userId : x \in {q \in videos : \E s \in saves :
                                             s.userId = r.caller /\ s.videoId = q.id}}
    [] r.route = "GET /api/comments/post/:postId" ->
         {x.userId : x \in {q \in comments : q.postId = r.target}}
    [] r.route = "GET /api/comments/video/:videoId" ->
         {x.userId : x \in {q \in comments : q.videoId = r.target}}

\* C21: a read that returns enriched rows (the feeds, the moderation and location
\* listings, the saved lists, the comment lists) fails with an error and returns no
\* list when the owning user of a row it goes through is missing, and returns a
\* list otherwise; so no returned row is without its user.
C21_MissingUserFails ==
  [][(resp'.route \in EnrichedRoutes /\ resp' # resp /\ resp'.status # 403) =>
       IF \E id \in OwnersRead(resp') : UserOf(id) = <<>>
       THEN resp'.status = 500
       ELSE resp'.status = 200]_vars
DetailRoutes == {"GET /api/posts/:postId", "GET /api/videos/:videoId"}

\* the base rows a single-item read looks at
DetailRows(r) ==
  IF r.route = "GET /api/posts/:postId" THEN {x \in posts : x.id = r.target}
  ELSE {x \in videos : x.id = r.target}

DetailLikes(r) ==
  IF r.route = "GET /api/posts/:postId" THEN {x \in likes : x.postId = r.target}
  ELSE {x \in likes : x.videoId = r.target}

\* C22: getPostWithDetails and getVideoWithDetails return undefined (404 at the
\* route) exactly when no row has the id or the owning user of the row is missing,
\* and then no error is raised; otherwise they return the row enriched with its
\* user, its counts and the viewer's isLiked.
C22_DetailsNotFound ==
  [][(resp'.route \in DetailRoutes /\ resp' # resp) =>
       IF \A x \in DetailRows(resp') : UserOf(x.userId) = <<>>
       THEN resp'.status = 404 /\ resp'.store = <<>> /\ resp'.error = <<>>
       ELSE /\ resp'.status = 200
            /\ resp'.error = <<>>
            /\ \E x \in DetailRows(resp') :
                 /\ resp'.body.id = x.id
                 /\ <<resp'.body.user>> = UserOf(x.userId)
            /\ resp'.body.likesCount = Cardinality(DetailLikes(resp'))
            /\ resp'.body.isLiked = (\E x \in DetailLikes(resp') : x.userId = resp'.caller)]_vars

\* a video that exists and whose owner has no user row was answered not found
C22_Witness ==
  /\ resp.route = "GET /api/videos/:videoId"
  /\ resp.status = 404
  /\ resp.error = <<>>
  /\ \E x \in videos : x.id = resp.target /\ UserOf(x.userId) = <<>>
\* a feed without what depends on the viewer: the posts in their order, each with
\* its two counts
FeedShape(feed) ==
  [ok |-> feed.ok,
   items |-> [i \in DOMAIN feed.items |->
                [id |-> feed.items[i].id, userId |-> feed.items[i].userId,
                 createdAt |-> feed.items[i].createdAt,
                 likesCount |-> feed.items[i].likesCount,
                 commentsCount |-> feed.items[i].commentsCount]]]

FeedShapes(viewer) == {FeedShape(feed) : feed \in getFeedPosts(viewer, FeedLimit)}

\* C23: on one state of the store getFeedPosts gives any two viewers the same posts
\* in the same order with the same likesCount and commentsCount; a request that
\* changes only the follows table changes no viewer's feed; and the feed route
\* answers with the list getFeedPosts has for its caller.
C23_FeedIgnoresGraph ==
  /\ [](\A v, w \in Subs : FeedShapes(v) = FeedShapes(w))
  /\ [][follows' # follows =>
          \A v \in Subs : getFeedPosts(v, FeedLimit)' = getFeedPosts(v, FeedLimit)]_vars
  /\ [][(resp'.route = "GET /api/posts/feed" /\ resp' # resp) =>
          resp'.store \in getFeedPosts(resp'.caller, FeedLimit)]_vars

\* a viewer who follows nobody got a feed with the post of someone who is followed
\* by another, and one item of it is liked by the other viewer alone
C23_Witness ==
  /\ resp.route = "GET /api/posts/feed"
  /\ resp.status = 200
  /\ \A f \in follows : f.followerId # resp.caller
  /\ \E i \in DOMAIN resp.body :
       /\ resp.body[i].userId # resp.caller
       /\ resp.body[i].isLiked = FALSE
       /\ resp.body[i].likesCount = 1
       /\ \E f \in follows : f.followingId = resp.caller
\* the item of a row as the read computes it when nothing runs beside it
ItemAlone(kind, row, userId) ==
  CASE kind = "feedPosts" -> FeedPostItem(row, userId)
    [] kind = "feedVideos" -> FeedVideoItem(row, userId)
    [] kind = "allPosts" -> AdminPostItem(row)
    [] kind = "savedPosts" -> SavedPostItem(row, userId)

\* C24: whatever the order in which the per-row lookups of getFeedPosts,
\* getFeedVideos, getAllPosts and getSavedPosts complete, the list returned has one
\* item per row of the base query, in the order of the base query, and the item at a
\* position carries the counts and flags of the row at that position.
C24_RecombinedByPosition ==
  [][\A kind \in EnrichKinds :
       (resp'.route = EnrichRouteOf(kind) /\ resp' # resp /\ resp'.status = 200) =>
         LET req == resp'.store
         IN  /\ req.rows \in baseQuery(kind, resp'.caller)
             /\ Len(resp'.body) = Len(req.rows)
             /\ \A i \in DOMAIN req.rows :
                  resp'.body[i] = ItemAlone(kind, req.rows[i].row, resp'.caller)]_vars

\* a list of two items with different counts whose second row completed first
C24_Witness ==
  \E kind \in EnrichKinds :
    /\ resp.route = EnrichRouteOf(kind)
    /\ resp.status = 200
    /\ Len(resp.body) = 2
    /\ resp.store.order = <<2, 1>>
    /\ resp.body[1].likesCount # resp.body[2].likesCount
\* C25: a delete request for a post (deletePost, deletePostAdmin) or a video
\* (deleteVideo, deleteVideoAdmin) removes the rows the store returned from the posts
\* (videos) table and changes no other table: the Like, Comment and Save rows that
\* reference the deleted item stay as they are.
C25_DeleteDoesNotCascade ==
  /\ [][(resp'.route = "DELETE /api/posts/:postId" /\ resp' # resp) =>
          /\ posts' = posts \ resp'.store
          /\ videos' = videos
          /\ likes' = likes /\ comments' = comments /\ saves' = saves
          /\ users' = users /\ locations' = locations /\ follows' = follows
          /\ \A r \in likes \cup comments \cup saves : r.postId = resp'.target =>
               r \in likes' \cup comments' \cup saves']_vars
  /\ [][(resp'.route = "DELETE /api/videos/:videoId" /\ resp' # resp) =>
          /\ videos' = videos \ resp'.store
          /\ posts' = posts
          /\ likes' = likes /\ comments' = comments /\ saves' = saves
          /\ users' = users /\ locations' = locations /\ follows' = follows
          /\ \A r \in comments \cup saves : r.videoId = resp'.target =>
               r \in comments' \cup saves']_vars

\* an admin deleted the post of someone else, and a like and a comment of that post
\* are still in their tables
C25_Witness ==
  /\ resp.route = "DELETE /api/posts/:postId"
  /\ resp.status = 200
  /\ \E x \in resp.store : x.userId # resp.caller
  /\ \A p \in posts : p.id # resp.target
  /\ \E r \in likes : r.postId = resp.target
  /\ \E r \in comments : r.postId = resp.target
\* C26: an unfollow request of a for b removes every Follow row from a to b, however
\* many follow requests made them, and unfollowUser returns true (the route answers
\* 200) exactly when there was one; after it isFollowing(a, b) is false and the
\* followersCount of b counts no row of a.
C26_UnfollowRemovesAll ==
  [][\A a \in Subs, b \in Subs :
       (IsResponse(resp', "DELETE /api/follows/:userId", a, b) /\ resp' # resp) =>
         /\ resp'.store = FollowRowsOf(a, b)
         /\ follows' = follows \ FollowRowsOf(a, b)
         /\ (resp'.status = 200) = (FollowRowsOf(a, b) # {})
         /\ ~isFollowing(a, b)'
         /\ \A profile \in Range(getUserProfile(b, a)') :
              /\ profile.isFollowing = FALSE
              /\ profile.followersCount =
                   Cardinality({r \in follows : r.followingId = b /\ r.followerId # a})]_vars

\* one unfollow request removed the two rows that two follow requests had made
C26_Witness ==
  \E a \in Subs, b \in Subs :
    /\ IsResponse(resp, "DELETE /api/follows/:userId", a, b)
    /\ resp.status = 200
    /\ Cardinality(resp.store) >= 2
    /\ FollowRowsOf(a, b) = {}
    /\ ~isFollowing(a, b)
\* C27: every item of a list returned by getFeedPosts or getFeedVideos has
\* likesCount >= 1 when its isLiked is true, also when like and unlike requests of
\* the viewer run between the lookups of the item.
C27_LikedImpliesCounted ==
  (resp.route \in {"GET /api/posts/feed", "GET /api/videos/feed"} /\ resp.status = 200) =>
    \A i \in DOMAIN resp.body : resp.body[i].isLiked => resp.body[i].likesCount >= 1
\* C28: a like or save request inserts a Like or Save row only for a post (video)
\* that exists: none for an id whose post (video) was deleted or never existed.
C28_OnlyExistingTargets ==
  [][\A r \in (likes' \ likes) \cup (saves' \ saves) :
       /\ r.postId # NULL => \E p \in posts : p.id = r.postId
       /\ r.videoId # NULL => \E v \in videos : v.id = r.videoId]_vars
AllowListEntries(s) ==
  LET cuts == {0, Len(s) + 1} \cup {k \in DOMAIN s : s[k] = ","}
  IN  {SubSeq(s, a + 1, b - 1) :
         <<a, b>> \in {c \in cuts \X cuts :
                         c[1] < c[2] /\ \A k \in cuts : ~(c[1] < k /\ k < c[2])}}

\* t is e without the blanks at its two ends
IsTrimOf(t, e) ==
  \E i, j \in 0..Len(e) :
    /\ i <= j
    /\ t = SubSeq(e, i + 1, j)
    /\ \A k \in 1..i : e[k] = " "
    /\ \A k \in (j + 1)..Len(e) : e[k] = " "
    /\ (i < j) => (e[i + 1] # " " /\ e[j] # " ")

\* an entry without the blanks at its two ends
TrimsOf(e) ==
  {t \in {SubSeq(e, c[1] + 1, c[2]) :
            c \in {d \in (0..Len(e)) \X (0..Len(e)) : d[1] <= d[2]}} : IsTrimOf(t, e)}

EqualsIgnoringCase(a, b) ==
  /\ Len(a) = Len(b)
  /\ \A i \in DOMAIN a :
       a[i] = b[i] \/ {a[i], b[i]} \in {{"a", "A"}, {"b", "B"}, {"c", "C"}}

\* C30: isAdmin(email) is true exactly when email is not empty and equals, ignoring
\* case, an entry of the allow-list with the blanks at its ends removed. It is false
\* for every email when the allow-list is unset, empty or made of empty entries, and
\* false for the undefined and the empty email whatever the allow-list, empty
\* entries included.
C30_IsAdminExact ==
  resp.route = "isAdmin" =>
    LET email == resp.target
        list == IF adminEnv = <<>> THEN <<>> ELSE adminEnv[1]
        entries == UNION {TrimsOf(e) : e \in AllowListEntries(list)}
    IN  /\ resp.body <=> (email # <<>> /\ \E e \in entries : EqualsIgnoringCase(email, e))
        /\ (adminEnv = <<>> \/ list = <<>> \/ entries = {<<>>}) => ~resp.body
        /\ email = <<>> => ~resp.body

\* an email in upper case is admin by an entry in lower case that has a blank before
\* it and an empty entry after it
C30_Witness ==
  /\ resp.route = "isAdmin"
  /\ adminEnv = << <<" ", "b", ",">> >>
  /\ resp.target = <<"B">>
  /\ resp.body

\* the empty email is not admin under an allow-list with an empty entry
C30_WitnessEmpty ==
  /\ resp.route = "isAdmin"
  /\ adminEnv = << <<"b", ",", ",">> >>
  /\ resp.target = <<>>
  /\ ~resp.body
====
